---------------------------- MODULE Spec2Model ----------------------------
(***************************************************************************)
(* A model of AzureDevopsBuildInteractive                                  *)
(* (azure_devops_build_iteractive.py): the interactive flow that sets up   *)
(* an Azure DevOps build/release pipeline for a function app.              *)
(*                                                                         *)
(* Python values are represented as follows.                               *)
(*   - A str that the code slices, concatenates or searches (project,      *)
(*     repository, git remote and definition names) is a sequence of       *)
(*     one-character strings; Python's None for such a field is NoneStr.   *)
(*   - Every other str is a TLA+ string; Python's None is None.            *)
(*   - An exception is a record [type, msg, args]: args are the values     *)
(*     interpolated into the message (a name or URL built from sequences   *)
(*     is interpolated as an opaque string).                               *)
(***************************************************************************)
EXTENDS Integers, Sequences, FiniteSets, TLC

VARIABLES
    self,     \* the attributes of the AzureDevopsBuildInteractive object
    pc,       \* the step of the flow that runs next
    err,      \* the exception that ended the flow, NoErr while none was raised
    trace,    \* the collaborator calls and prompts made so far, in order
    git,      \* local git: the names of the remotes bound in the working copy
    devops,   \* the Azure DevOps resources this flow has created
    poll,     \* the local variables of process_release: counter and build
    result    \* what interactive_azure_devops_build returned

vars == <<self, pc, err, trace, git, devops, poll, result>>

(***************************************************************************)
(* Python values                                                           *)
(***************************************************************************)
None == "<None>"
NoneStr == <<"<None>">>

\* bool(x) of an Optional[str] held as a TLA+ string
Truthy(x) == x /= None /\ x /= ""
\* bool(x) of an Optional[str] held as a sequence of characters
TruthyStr(x) == x /= NoneStr /\ x /= <<>>

Range(f) == {f[i] : i \in DOMAIN f}

\* s[0:n]
Slice(s, n) == SubSeq(s, 1, IF Len(s) < n THEN Len(s) ELSE n)

\* the least index at which old occurs in s, 0 when it does not occur
Find(s, old) ==
    LET hits == {i \in 1..(Len(s) - Len(old) + 1) : SubSeq(s, i, i + Len(old) - 1) = old}
    IN  IF hits = {} THEN 0 ELSE CHOOSE i \in hits : \A j \in hits : i <= j

\* s.replace(old, new, 1)
ReplaceFirst(s, old, new) ==
    LET i == Find(s, old)
    IN  IF i = 0 THEN s
        ELSE SubSeq(s, 1, i - 1) \o new \o SubSeq(s, i + Len(old), Len(s))

\* "c" * n
Repeat(c, n) == [i \in 1..n |-> c]

(***************************************************************************)
(* Module constants                                                        *)
(***************************************************************************)
\* (a variant with the two scenarios in the other order)
SUPPORTED_SCENARIOS_Swapped == <<"GITHUB_INTEGRATION", "AZURE_DEVOPS">>
SUPPORTED_SCENARIOS == <<"AZURE_DEVOPS", "GITHUB_INTEGRATION">>
SUPPORTED_SOURCECODE_LOCATIONS == <<"Current Directory", "Github">>

PYTHON == "python"
NODE == "node"
DOTNET == "dotnet"
LINUX_CONSUMPTION == "LINUX_CONSUMPTION"
LINUX_DEDICATED == "LINUX_DEDICATED"
WINDOWS == "WINDOWS"

\* a dict: SUPPORTED_LANGUAGES.get(k) is LanguageGet(k)
SUPPORTED_LANGUAGES == [python |-> PYTHON, node |-> NODE, dotnet |-> DOTNET]
LanguageGet(k) == IF k \in DOMAIN SUPPORTED_LANGUAGES THEN SUPPORTED_LANGUAGES[k] ELSE None

\* A Python bool that may also be None (an Optional[bool]) is one of these strings.
PyTrue == "True"
PyFalse == "False"
PyBool(b) == IF b THEN PyTrue ELSE PyFalse

\* utils.str2bool: 'true' -> True, 'false' -> False, anything else -> None
str2bool(v) == IF v = "true" THEN PyTrue ELSE IF v = "false" THEN PyFalse ELSE None

(***************************************************************************)
(* Exceptions                                                              *)
(***************************************************************************)
NoErr == [type |-> "none", msg |-> "", args |-> <<>>]

\* raise CLIError(msg.format(...)) / raise SomeException(arg)
Raise(type, msg, args) == [type |-> type, msg |-> msg, args |-> args]

\* template.format(**kwargs): the placeholders a message template holds and the
\* keyword arguments the call passes; str.format raises KeyError for a
\* placeholder that is not among the keywords.
Format(msg, placeholders, kwargs) ==
    LET missing == {i \in DOMAIN placeholders : placeholders[i] \notin DOMAIN kwargs}
    IN  IF missing /= {}
        THEN Raise("KeyError", "", <<placeholders[CHOOSE i \in missing : \A j \in missing : i <= j]>>)
        ELSE Raise("CLIError", msg, [i \in DOMAIN placeholders |-> kwargs[placeholders[i]]])


(***************************************************************************)
(* The session: __init__                                                   *)
(***************************************************************************)
\* the attributes __init__ sets from its arguments a
NewSession(a) ==
    [functionapp_name |-> a.functionapp_name,
     storage_name |-> None,
     resource_group_name |-> None,
     functionapp_language |-> None,
     functionapp_type |-> None,
     organization_name |-> a.organization_name,
     project_name |-> a.project_name,
     repository_name |-> a.repository_name,
     github_pat |-> a.github_pat,
     github_repository |-> a.github_repository,
     github_service_endpoint_name |-> None,
     repository_remote_name |-> NoneStr,
     service_endpoint_name |-> None,
     build_definition_name |-> NoneStr,
     release_definition_name |-> NoneStr,
     build_pool_name |-> "Default",
     release_pool_name |-> "Hosted VS2017",
     artifact_name |-> "drop",
     settings |-> <<>>,
     build |-> None,
     release |-> None,
     scenario |-> None,
     created_organization |-> FALSE,
     created_project |-> FALSE,
     overwrite_yaml |-> str2bool(a.overwrite_yaml),
     allow_force_push |-> a.allow_force_push,
     use_local_settings |-> str2bool(a.use_local_settings)]

\* The state a method works on: the object, the exception raised (NoErr while
\* the method is still running normally), the calls made, local git and the
\* resources created in Azure DevOps.
State(s, e, t, g, d) == [self |-> s, err |-> e, trace |-> t, git |-> g, devops |-> d]

Call(st, op) == [st EXCEPT !.trace = Append(@, op)]
Throw(st, e) == [st EXCEPT !.err = e]
Set(st, f, v) == [st EXCEPT !.self[f] = v]
Ok(st) == st.err = NoErr

(***************************************************************************)
(* check_scenario                                                          *)
(***************************************************************************)
\* (a variant that looks at the GitHub arguments before the repository name)
ScenarioOf_GithubFirst(repository_name, github_pat, github_repository, choice_index) ==
    IF Truthy(github_pat) \/ TruthyStr(github_repository) THEN "GITHUB_INTEGRATION"
    ELSE IF TruthyStr(repository_name) THEN "AZURE_DEVOPS"
    ELSE SUPPORTED_SCENARIOS[choice_index + 1]

\* choice_index is what prompt_choice_list returns: an index into its list
ScenarioOf(repository_name, github_pat, github_repository, choice_index) ==
    IF TruthyStr(repository_name) THEN "AZURE_DEVOPS"
    ELSE IF Truthy(github_pat) \/ TruthyStr(github_repository) THEN "GITHUB_INTEGRATION"
    ELSE SUPPORTED_SCENARIOS[choice_index + 1]

ScenarioPrompts(s) ==
    ~TruthyStr(s.repository_name) /\ ~Truthy(s.github_pat) /\ ~TruthyStr(s.github_repository)

\* the prompt, and the label the user picked
SourcePrompt(choice_index) ==
    IF SUPPORTED_SOURCECODE_LOCATIONS[choice_index + 1] = "Github"
    THEN "prompt_choice_list:Github" ELSE "prompt_choice_list:Current Directory"

check_scenario(st, choice_index) ==
    LET s == st.self
        asked == IF ScenarioPrompts(s) THEN Call(st, SourcePrompt(choice_index)) ELSE st
    IN  Set(asked, "scenario",
            ScenarioOf(s.repository_name, s.github_pat, s.github_repository, choice_index))


(***************************************************************************)
(* Dictionaries (json objects)                                             *)
(***************************************************************************)
EmptyDict == <<>>
\* d.get(k, default)
DictGet(d, k, default) == IF k \in DOMAIN d THEN d[k] ELSE default

(***************************************************************************)
(* The subscription's function apps, as list_function_app, show_webapp     *)
(* and get_app_settings report them.  kind is the comma-separated kind     *)
(* already split; the AzureWebJobsStorage connection string is held split  *)
(* on ';' and then on '='.                                                 *)
(***************************************************************************)
GoodStorage == <<<<"DefaultEndpointsProtocol", "https">>, <<"AccountName", "store1">>,
                 <<"AccountKey", "key">>>>
DevStorage == <<<<"UseDevelopmentStorage", "true">>>>

FunctionApps ==
    {[name |-> "app_py", resource_group |-> "rg1", kind |-> <<"functionapp">>,
      app_settings |-> <<[name |-> "FUNCTIONS_WORKER_RUNTIME", value |-> "python"],
                         [name |-> "AzureWebJobsStorage", value |-> GoodStorage]>>],
     [name |-> "app_node", resource_group |-> "rg1", kind |-> <<"functionapp", "linux">>,
      app_settings |-> <<[name |-> "AzureWebJobsStorage", value |-> GoodStorage],
                         [name |-> "FUNCTIONS_WORKER_RUNTIME", value |-> "node"]>>],
     [name |-> "app_java", resource_group |-> "rg2",
      kind |-> <<"functionapp", "linux", "container">>,
      app_settings |-> <<[name |-> "FUNCTIONS_WORKER_RUNTIME", value |-> "java"],
                         [name |-> "AzureWebJobsStorage", value |-> GoodStorage]>>],
     [name |-> "app_bare", resource_group |-> "rg2", kind |-> <<"functionapp">>,
      app_settings |-> <<>>],
     [name |-> "app_dev", resource_group |-> "rg2", kind |-> <<"functionapp">>,
      app_settings |-> <<[name |-> "FUNCTIONS_WORKER_RUNTIME", value |-> "python"],
                         [name |-> "AzureWebJobsStorage", value |-> DevStorage]>>]}

\* what list_function_app may return
FunctionAppLists == {{}, FunctionApps}

\* sorted(names) for the names of this model, which NameOrder lists in order
NameOrder == <<"app_bare", "app_dev", "app_java", "app_node", "app_py",
               "org1", "org2", "region1", "region2">>
Sorted_AsListed(names) ==
    LET listed == <<"org2", "org1", "app_py", "app_node", "app_java", "app_dev", "app_bare",
                    "region2", "region1">>
    IN  SelectSeq(listed, LAMBDA n : n \in names)

Sorted(names) == SelectSeq(NameOrder, LAMBDA n : n \in names)

(***************************************************************************)
(* process_functionapp and its helpers                                     *)
(***************************************************************************)
_find_type(kinds) ==
    IF "linux" \in Range(kinds)
    THEN IF "container" \in Range(kinds) THEN LINUX_DEDICATED ELSE LINUX_CONSUMPTION
    ELSE WINDOWS

\* the values of the settings called name, in order
SettingValues(app_settings, name) ==
    LET hits == SelectSeq(app_settings, LAMBDA x : x.name = name)
    IN  [i \in DOMAIN hits |-> hits[i].value]

\* The result of a helper that returns a value or raises: [err, value].
Return(v) == [err |-> NoErr, value |-> v]
Raised(e) == [err |-> e, value |-> None]

_get_functionapp_runtime_language(app_settings) ==
    LET functions_worker_runtime == SettingValues(app_settings, "FUNCTIONS_WORKER_RUNTIME")
    IN  IF functions_worker_runtime /= <<>>
        THEN LET functionapp_language == functions_worker_runtime[1]
             IN  IF Truthy(LanguageGet(functionapp_language))
                 THEN Return(SUPPORTED_LANGUAGES[functionapp_language])
                 ELSE Raised(Raise("LanguageNotSupportException", functionapp_language,
                                   <<functionapp_language>>))
        ELSE Return(None)

\* functions_worker_runtime[0].split(';')[1].split('=')[1]
_get_functionapp_storage_name(app_settings) ==
    LET values == SettingValues(app_settings, "AzureWebJobsStorage")
    IN  IF values /= <<>>
        THEN IF Len(values[1]) < 2 \/ Len(values[1][2]) < 2
             THEN Raised(Raise("IndexError", "list index out of range", <<>>))
             ELSE Return(values[1][2][2])
        ELSE Return(None)

\* (a variant whose message does not name the language)
NotSupportedError_Unnamed(lnse) ==
    Raise("CLIError", "Sorry, currently we do not support this language.", <<>>)

\* raise CLIError("Sorry, currently we do not support {language}.".format(language=lnse.message))
NotSupportedError(lnse) ==
    Format("Sorry, currently we do not support {language}.", <<"language">>,
           [language |-> lnse.msg])

\* _select_functionapp: functionapps is what list_function_app returns
_select_functionapp(st, functionapps, choice_index) ==
    LET listed == Call(st, "list_function_app")
        functionapp_names == Sorted({f.name : f \in functionapps})
    IN  IF Len(functionapp_names) < 1
        THEN Throw(listed, Format("You do not have any existing function apps",
                                  <<"ls", "ls", "ls", "SUBSCRIPTION_NAME", "ls">>,
                                  [ls |-> "\n"]))
        ELSE Set(Call(listed, "prompt_choice_list:functionapp"), "functionapp_name",
                 functionapp_names[choice_index + 1])

\* CmdSelectors.cmd_functionapp
cmd_functionapp(st, functionapps) ==
    LET listed == Call(st, "list_function_app")
    IN  IF \A f \in functionapps : f.name /= st.self.functionapp_name
        THEN Throw(listed, Raise("CLIError", "Error finding functionapp", <<>>))
        ELSE listed

process_functionapp(st, functionapps, choice_index) ==
    LET found == IF st.self.functionapp_name = None
                 THEN _select_functionapp(st, functionapps, choice_index)
                 ELSE cmd_functionapp(st, functionapps)
    IN  IF ~Ok(found) THEN found
        ELSE
        LET functionapp == CHOOSE f \in functionapps : f.name = found.self.functionapp_name
            fetched == Call(Call(found, "show_webapp"), "get_app_settings")
            typed == Set(Set(fetched, "resource_group_name", functionapp.resource_group),
                         "functionapp_type", _find_type(functionapp.kind))
            language == _get_functionapp_runtime_language(functionapp.app_settings)
            storage == _get_functionapp_storage_name(functionapp.app_settings)
        IN  IF language.err /= NoErr THEN Throw(typed, NotSupportedError(language.err))
            ELSE IF storage.err /= NoErr
                 THEN Throw(Set(typed, "functionapp_language", language.value), storage.err)
                 ELSE Set(Set(typed, "functionapp_language", language.value),
                          "storage_name", storage.value)


(***************************************************************************)
(* local.settings.json, as json.load returns it (locally, or from the      *)
(* GitHub repository)                                                      *)
(***************************************************************************)
LocalSettingsFiles ==
    {[IsEncrypted |-> "false"],
     [Values |-> EmptyDict],
     [Values |-> [AzureWebJobsStorage |-> "conn"]],
     [Values |-> [FUNCTIONS_WORKER_RUNTIME |-> ""]],
     [Values |-> [FUNCTIONS_WORKER_RUNTIME |-> "python"]],
     [Values |-> [FUNCTIONS_WORKER_RUNTIME |-> "python", AzureWebJobsStorage |-> "conn",
                  MY_SETTING |-> "1"]],
     [Values |-> [FUNCTIONS_WORKER_RUNTIME |-> "node", MY_SETTING |-> "1"]],
     [Values |-> [FUNCTIONS_WORKER_RUNTIME |-> "java"]]}

\* settings.get('Values', {}).get('FUNCTIONS_WORKER_RUNTIME')
DeclaredRuntime(settings) ==
    DictGet(DictGet(settings, "Values", EmptyDict), "FUNCTIONS_WORKER_RUNTIME", None)

NotDefinedError ==
    Raise("CLIError",
          "The 'FUNCTIONS_WORKER_RUNTIME' setting is not defined in the local.settings.json file",
          <<>>)

\* the part of both _find_*_runtime_language after the file is read
RuntimeLanguageOf(settings) ==
    LET runtime_language == DeclaredRuntime(settings)
    IN  IF ~Truthy(runtime_language) THEN Raised(NotDefinedError)
        ELSE IF Truthy(LanguageGet(runtime_language)) THEN Return(runtime_language)
        ELSE Raised(Raise("LanguageNotSupportException", runtime_language,
                          <<runtime_language>>))

\* (a variant that takes a missing declaration for no declaration to compare)
_find_local_repository_runtime_language_Lenient(settings) ==
    IF ~Truthy(DeclaredRuntime(settings)) THEN Return(None)
    ELSE RuntimeLanguageOf(settings)

_find_local_repository_runtime_language(settings) == RuntimeLanguageOf(settings)

\* (a variant that treats a missing file as a missing declaration)
_find_github_repository_runtime_language_Strict(fetched) ==
    IF ~fetched.found THEN Raised(NotDefinedError)
    ELSE RuntimeLanguageOf(fetched.content)

\* fetched is what adbp.get_github_content does: found is FALSE when it raises
\* GithubContentNotFound, and content is what it returns otherwise
_find_github_repository_runtime_language(fetched) ==
    IF ~fetched.found THEN Return(None)
    ELSE RuntimeLanguageOf(fetched.content)

\* The keywords the mismatch message is formatted with, and its placeholders.
MismatchPlaceholders == <<"setting", "functionapps", "ls">>
MismatchKeywords(local, remote) == [setting |-> local, functionapps |-> remote]

MismatchError(local, remote) ==
    Format("The local language you are using ({setting}) does not match the language of your function app ({functionapps})",
           MismatchPlaceholders, MismatchKeywords(local, remote))

\* check_git, host_json and local_settings_json are what adbp.check_git() and
\* os.path.exists return; settings is the content of local.settings.json
pre_checks_azure_devops(st, check_git, host_json, local_settings_json, settings) ==
    LET c1 == Call(st, "check_git")
        c2 == Call(c1, "os.path.exists:host.json")
        c3 == Call(c2, "os.path.exists:local.settings.json")
        c4 == Call(c3, "open:local.settings.json")
        local == _find_local_repository_runtime_language(settings)
    IN  IF ~check_git
        THEN Throw(c1, Raise("CLIError", "The program requires git source control", <<>>))
        ELSE IF ~host_json
        THEN Throw(c2, Format("There is no host.json in the current directory.",
                              <<"ls">>, [ls |-> "\n"]))
        ELSE IF ~local_settings_json
        THEN Throw(c3, Format("There is no local.settings.json in the current directory.",
                              <<"ls">>, [ls |-> "\n"]))
        ELSE IF local.err /= NoErr THEN Throw(c4, local.err)
        ELSE IF local.value /= st.self.functionapp_language
        THEN Throw(c4, MismatchError(local.value, st.self.functionapp_language))
        ELSE c4

\* what adbp.get_github_content may do
GithubContents ==
    {[found |-> FALSE, content |-> EmptyDict]}
        \cup {[found |-> TRUE, content |-> c] : c \in LocalSettingsFiles}

\* host_json is what adbp.check_github_file returns for host.json
pre_checks_github(st, host_json, content) ==
    LET c1 == Call(st, "check_github_file:host.json")
        fetched == Call(c1, "get_github_content:local.settings.json")
        c2 == IF content.found THEN fetched
              ELSE Call(fetched, "logger.warning:runtime language check is disabled")
        github == _find_github_repository_runtime_language(content)
    IN  IF ~host_json
        THEN Throw(c1, Format("There is no host.json in Github repository {repo}.",
                              <<"repo", "ls", "ls">>, [repo |-> "<github_repository>", ls |-> "\n"]))
        ELSE IF github.err /= NoErr THEN Throw(c2, github.err)
        ELSE IF github.value /= None /\ github.value /= st.self.functionapp_language
        THEN Throw(c2, MismatchError(github.value, st.self.functionapp_language))
        ELSE c2


(***************************************************************************)
(* Azure DevOps, as the provider (adbp) reports and changes it.  The       *)
(* variable devops holds what this flow created; what existed before is    *)
(* an input of the step that lists it.                                     *)
(***************************************************************************)
NoDevops ==
    [organizations |-> {}, projects |-> {}, repositories |-> {}, service_endpoints |-> {},
     github_service_endpoints |-> {}, extensions |-> {}, build_definitions |-> {},
     builds |-> {}, release_definitions |-> {}, releases |-> {}, pushed |-> {}]

Created(st, kind, x) == [st EXCEPT !.devops[kind] = @ \cup {x}]

\* the organizations the user may have beforehand, and the names a user may
\* type for a new one
OrganizationLists == {{}, {"org1", "org2"}}
OrganizationPrompts == {"", "org1", "org3"}
RegionNames == {"region1", "region2"}

\* the projects that may exist beforehand in the organization, and the names
\* a user may type for a new one
P1 == <<"p", "1">>
P2 == <<"p", "2">>
P3 == <<"p", "3">>
ProjectLists == {{}, {P1, P2}}
ProjectPrompts == {<<>>, P1, P3}
StrOrder == <<P1, P2, P3>>
SortedStr(names) == SelectSeq(StrOrder, LAMBDA n : n \in names)

\* how many names one creation loop is given before the remote accepts one
MaxAttempts == 2

\* the sequences of at most MaxAttempts names of which exactly the last is valid
RECURSIVE Attempts(_, _, _)
Attempts(invalid, valid, n) ==
    IF n = 0 THEN {}
    ELSE {<<v>> : v \in valid}
             \cup {<<i>> \o rest : i \in invalid, rest \in Attempts(invalid, valid, n - 1)}

\* (a variant that creates the organization it does not find)
cmd_organization_Create(st, organizations) ==
    LET listed == Call(st, "list_organizations")
    IN  IF st.self.organization_name \notin organizations
        THEN Created(Call(listed, "create_organization"), "organizations",
                     st.self.organization_name)
        ELSE listed

\* CmdSelectors.cmd_organization
cmd_organization(st, organizations) ==
    LET listed == Call(st, "list_organizations")
    IN  IF st.self.organization_name \notin organizations
        THEN Throw(listed, Raise("CLIError", "Error finding organization", <<>>))
        ELSE listed

\* the names adbp.create_organization and adbp.create_project refuse (valid
\* False): names that are taken, and the empty name
RefusedOrganizationNames == {"", "org1", "org2"}
RefusedProjectNames == {<<>>, P1, P2}

\* (a variant that keeps the first name typed, whatever the remote answers)
CreateOrganizationLoop_Once(st, names) ==
    LET tried == Call(Call(st, "prompt:organization"), "create_organization")
    IN  Set(Created(tried, "organizations", names[1]), "organization_name", names[1])

\* the loop of _create_organization; names are the names typed, in order
RECURSIVE CreateOrganizationLoop(_, _)
CreateOrganizationLoop(st, names) ==
    LET tried == Call(Call(st, "prompt:organization"), "create_organization")
    IN  IF names[1] \in RefusedOrganizationNames
        THEN CreateOrganizationLoop(tried, Tail(names))
        ELSE Set(Created(tried, "organizations", names[1]), "organization_name", names[1])

_create_organization(st, region_index, names) ==
    CreateOrganizationLoop(Call(Call(st, "list_regions"), "prompt_choice_list:region"), names)

_select_organization(st, organizations, choice_index, region_index, names) ==
    LET listed == Call(st, "list_organizations")
        organization_names == Sorted(organizations)
    IN  IF Len(organization_names) < 1
        THEN Set(_create_organization(listed, region_index, names), "created_organization", TRUE)
        ELSE Set(Call(listed, "prompt_choice_list:organization"), "organization_name",
                 organization_names[choice_index + 1])

\* (a variant that does not note the organization it creates when the user
\* declines to use an existing one)
process_organization_Unflagged(st, organizations, use_existing, choice_index, region_index, names) ==
    IF st.self.organization_name = None
    THEN LET asked == Call(st, "prompt_y_n:use_existing_organization")
         IN  IF use_existing
             THEN _select_organization(asked, organizations, choice_index, region_index, names)
             ELSE _create_organization(asked, region_index, names)
    ELSE cmd_organization(st, organizations)

\* use_existing is the answer to 'Would you like to use an existing Azure
\* Devops organization?'
process_organization(st, organizations, use_existing, choice_index, region_index, names) ==
    IF st.self.organization_name = None
    THEN LET asked == Call(st, "prompt_y_n:use_existing_organization")
         IN  IF use_existing
             THEN _select_organization(asked, organizations, choice_index, region_index, names)
             ELSE Set(_create_organization(asked, region_index, names),
                      "created_organization", TRUE)
    ELSE cmd_organization(st, organizations)

\* CmdSelectors.cmd_project
cmd_project(st, projects) ==
    LET listed == Call(st, "list_projects")
    IN  IF st.self.project_name \notin projects
        THEN Throw(listed, Raise("CLIError", "Error finding project", <<>>))
        ELSE listed

RECURSIVE CreateProjectLoop(_, _)
CreateProjectLoop(st, names) ==
    LET tried == Call(Call(st, "prompt:project"), "create_project")
    IN  IF names[1] \in RefusedProjectNames
        THEN CreateProjectLoop(tried, Tail(names))
        ELSE Set(Set(Created(tried, "projects", <<st.self.organization_name, names[1]>>),
                     "project_name", names[1]),
                 "created_project", TRUE)

_create_project(st, names) == CreateProjectLoop(st, names)

_select_project(st, projects, choice_index, names) ==
    LET listed == Call(st, "list_projects")
    IN  IF Cardinality(projects) > 0
        THEN Set(Call(listed, "prompt_choice_list:project"), "project_name",
                 SortedStr(projects)[choice_index + 1])
        ELSE _create_project(listed, names)

process_project(st, projects, use_existing, choice_index, names) ==
    IF st.self.project_name = NoneStr /\ st.self.created_organization
    THEN _create_project(st, names)
    ELSE IF st.self.project_name = NoneStr
    THEN LET asked == Call(st, "prompt_y_n:use_existing_project")
         IN  IF use_existing THEN _select_project(asked, projects, choice_index, names)
             ELSE _create_project(asked, names)
    ELSE cmd_project(st, projects)


(***************************************************************************)
(* process_yaml_local                                                      *)
(***************************************************************************)
\* the keys of a json object in the order the file lists them
KeyOrder == <<"FUNCTIONS_WORKER_RUNTIME", "AzureWebJobsStorage", "MY_SETTING">>
Items(d) ==
    LET keys == SelectSeq(KeyOrder, LAMBDA k : k \in DOMAIN d)
    IN  [i \in DOMAIN keys |-> <<keys[i], d[keys[i]]>>]

DefaultSettings == {"FUNCTIONS_WORKER_RUNTIME", "AzureWebJobsStorage"}
\* (a variant that collects every setting of the file)
NonDefaultSettings_All(data) == Items(data.Values)

NonDefaultSettings(data) == SelectSeq(Items(data.Values), LAMBDA kv : kv[1] \notin DefaultSettings)

\* (a variant that always takes overwriting as consented to)
OverwriteResponse_Yes(s, overwrite) == PyTrue

\* response, when azure-pipelines.yml exists: the flag when given, the answer
\* to the prompt otherwise
OverwriteResponse(s, overwrite) ==
    IF s.overwrite_yaml = None THEN PyBool(overwrite) ELSE s.overwrite_yaml

\* data is the content of local.settings.json; yaml_exists is
\* os.path.exists('azure-pipelines.yml'); copy and overwrite are the answers to
\* the two prompts; yaml_ok is FALSE when adbp.create_yaml raises
\* LanguageNotSupportException
process_yaml_local(st, data, yaml_exists, copy, overwrite, yaml_ok) ==
    LET s == st.self
        opened == Call(st, "open:local.settings.json")
        found == NonDefaultSettings(data)
        asked == IF found /= <<>> /\ s.use_local_settings = None
                 THEN Call(opened, "prompt_y_n:use_local_settings") ELSE opened
        use_local_settings == IF s.use_local_settings = None THEN PyBool(copy)
                              ELSE s.use_local_settings
        settings == IF found /= <<>> /\ use_local_settings /= PyTrue THEN <<>> ELSE found
        kept == Call(Set(asked, "settings", settings), "os.path.exists:azure-pipelines.yml")
        asked2 == IF yaml_exists /\ s.overwrite_yaml = None
                  THEN Call(kept, "prompt_y_n:overwrite_yaml") ELSE kept
        response == OverwriteResponse(s, overwrite)
    IN  IF ~yaml_exists \/ response = PyTrue
        THEN LET written == Call(asked2, "create_yaml")
             IN  IF yaml_ok THEN written
                 ELSE Throw(written, NotSupportedError(
                          Raise("LanguageNotSupportException", s.functionapp_language, <<>>)))
        ELSE asked2

(***************************************************************************)
(* process_local_repository                                                *)
(***************************************************************************)
AzureDevopsPrefix == <<"_", "a", "z", "u", "r", "e", "d", "e", "v", "o", "p", "s", "_">>
BuildPrefix == <<"_", "b", "u", "i", "l", "d", "_">>
ReleasePrefix == <<"_", "r", "e", "l", "e", "a", "s", "e", "_">>

\* adbp.get_local_git_remote_name: "_azuredevops_" before the repository name
get_local_git_remote_name(organization_name, project_name, repository_name) ==
    AzureDevopsPrefix \o repository_name

\* adbp.check_git_remote: whether the working copy has a remote of that name
check_git_remote(g, organization_name, project_name, repository_name) ==
    get_local_git_remote_name(organization_name, project_name, repository_name) \in g

\* adbp.remove_git_remote
remove_git_remote(st, organization_name, project_name, repository_name) ==
    [Call(st, "remove_git_remote") EXCEPT
        !.git = @ \ {get_local_git_remote_name(organization_name, project_name, repository_name)}]

R1 == <<"r", "1">>
RepositoryPrompts == {<<>>, R1}

RemoteBoundError ==
    Format("There's a git remote bound to {url}.", <<"url", "ls", "remote">>,
           [url |-> "<url>", remote |-> "<remote>", ls |-> "\n"])

\* the end of process_local_repository, once no remote of the expected name
\* was found: checked is the state after adbp.check_git_remote
SetupLocalRepository(checked, expected_remote_name, setup_ok) ==
    LET c3 == Call(checked, "setup_local_git_repository")
    IN  IF ~setup_ok
        THEN Throw(c3, Raise("CLIError", "Failed to setup local git repository.", <<>>))
        ELSE Set([c3 EXCEPT !.git = @ \cup {expected_remote_name}],
                 "repository_remote_name", expected_remote_name)

\* (a variant that sets the repository up over a remote of the expected name)
process_local_repository_Overwrite(st, typed, setup_ok) ==
    LET s == st.self
        c1 == Call(st, "check_git_local_repository")
        named == IF ~TruthyStr(s.repository_name)
                 THEN Set(Call(c1, "prompt:repository"), "repository_name",
                          IF ~TruthyStr(typed) THEN s.project_name ELSE typed)
                 ELSE c1
        n == named.self
    IN  SetupLocalRepository(Call(named, "check_git_remote"),
                             get_local_git_remote_name(n.organization_name, n.project_name,
                                                       n.repository_name),
                             setup_ok)

\* typed is the answer to 'Push to which Azure Devops repository'; setup_ok is
\* FALSE when adbp.setup_local_git_repository raises GitOperationException
process_local_repository(st, typed, setup_ok) ==
    LET s == st.self
        c1 == Call(st, "check_git_local_repository")
        named == IF ~TruthyStr(s.repository_name)
                 THEN Set(Call(c1, "prompt:repository"), "repository_name",
                          IF ~TruthyStr(typed) THEN s.project_name ELSE typed)
                 ELSE c1
        n == named.self
        expected_remote_name ==
            get_local_git_remote_name(n.organization_name, n.project_name, n.repository_name)
        c2 == Call(named, "check_git_remote")
    IN  IF check_git_remote(st.git, n.organization_name, n.project_name, n.repository_name)
        THEN Throw(c2, RemoteBoundError)
        ELSE SetupLocalRepository(c2, expected_remote_name, setup_ok)

(***************************************************************************)
(* process_remote_repository                                               *)
(***************************************************************************)
ConsentError == Raise("CLIError", "Failed to obtain your consent.", <<>>)

\* The result of a helper that changes the state and returns a value.
With(st, v) == [st |-> st, value |-> v]

\* (a variant that leaves the remote bound when consent is declined)
_check_if_force_push_required_Keep(st, remote_branches, answer) ==
    LET s == st.self
    IN  IF remote_branches /= <<>>
        THEN LET asked == IF s.allow_force_push = None
                          THEN Call(st, "prompt_y_n:force_push") ELSE st
                 consent == IF s.allow_force_push = None THEN PyBool(answer)
                            ELSE str2bool(s.allow_force_push)
             IN  IF consent /= PyTrue
                 THEN With(Throw(asked, ConsentError), FALSE)
                 ELSE With(asked, TRUE)
        ELSE With(st, FALSE)

\* remote_branches is what adbp.get_azure_devops_repository_branches returns;
\* answer is the answer to the consent prompt
_check_if_force_push_required(st, remote_branches, answer) ==
    LET s == st.self
    IN  IF remote_branches /= <<>>
        THEN LET asked == IF s.allow_force_push = None
                          THEN Call(st, "prompt_y_n:force_push") ELSE st
                 consent == IF s.allow_force_push = None THEN PyBool(answer)
                            ELSE str2bool(s.allow_force_push)
             IN  IF consent /= PyTrue
                 THEN With(Throw(remove_git_remote(asked, s.organization_name, s.project_name,
                                                   s.repository_name),
                                 ConsentError), FALSE)
                 ELSE With(asked, TRUE)
        ELSE With(st, FALSE)

\* (a variant that leaves the remote bound when the consent is declined)
_check_if_git_credential_required_Keep(st, credential_manager, answer) ==
    LET c1 == Call(st, "check_git_credential_manager")
        asked == Call(c1, "prompt_y_n:alternate_credentials")
    IN  IF credential_manager THEN c1
        ELSE IF ~answer THEN Throw(asked, ConsentError)
        ELSE asked

\* credential_manager is what adbp.check_git_credential_manager returns
_check_if_git_credential_required(st, credential_manager, answer) ==
    LET s == st.self
        c1 == Call(st, "check_git_credential_manager")
        asked == Call(c1, "prompt_y_n:alternate_credentials")
    IN  IF credential_manager THEN c1
        ELSE IF ~answer
        THEN Throw(remove_git_remote(asked, s.organization_name, s.project_name,
                                     s.repository_name), ConsentError)
        ELSE asked

\* (a variant that always forces)
Push_AlwaysForce(force) == "push_local_to_azure_devops_repository(force=True)"

\* the push the flow makes
Push(force) == IF force THEN "push_local_to_azure_devops_repository(force=True)"
               ELSE "push_local_to_azure_devops_repository(force=False)"

\* what the repository may have in Azure DevOps before the step: it may not
\* exist, and when it exists it has these branches
RemoteRepositories ==
    {[exists |-> FALSE, branches |-> <<>>], [exists |-> TRUE, branches |-> <<>>],
     [exists |-> TRUE, branches |-> <<"master">>]}

\* the error of a push that raised GitOperationException
PushError ==
    Format("Failed to push your local repository to {url}", <<"url", "ls">>,
           [url |-> "<url>", ls |-> "\n"])

\* (a variant that leaves the remote bound when the push fails)
process_remote_repository_KeepRemote(st, repository, force_answer, credential_manager, credential_answer, push_ok) ==
    LET s == st.self
        c1 == Call(st, "get_azure_devops_repository")
        made == IF ~repository.exists
                THEN Created(Call(c1, "create_repository"), "repositories",
                             <<s.organization_name, s.project_name, s.repository_name>>)
                ELSE c1
        c2 == Call(made, "get_azure_devops_repository_branches")
        forced == _check_if_force_push_required(c2, repository.branches, force_answer)
    IN  IF ~Ok(forced.st) THEN forced.st
        ELSE LET cred == _check_if_git_credential_required(forced.st, credential_manager,
                                                           credential_answer)
             IN  IF ~Ok(cred) THEN cred
                 ELSE LET pushed == Call(cred, Push(forced.value))
                      IN  IF push_ok
                          THEN Created(pushed, "pushed",
                                       <<s.organization_name, s.project_name,
                                         s.repository_name>>)
                          ELSE Throw(pushed, PushError)

\* push_ok is FALSE when the push raises GitOperationException
process_remote_repository(st, repository, force_answer, credential_manager, credential_answer, push_ok) ==
    LET s == st.self
        c1 == Call(st, "get_azure_devops_repository")
        made == IF ~repository.exists
                THEN Created(Call(c1, "create_repository"), "repositories",
                             <<s.organization_name, s.project_name, s.repository_name>>)
                ELSE c1
        c2 == Call(made, "get_azure_devops_repository_branches")
        forced == _check_if_force_push_required(c2, repository.branches, force_answer)
    IN  IF ~Ok(forced.st) THEN forced.st
        ELSE LET cred == _check_if_git_credential_required(forced.st, credential_manager,
                                                           credential_answer)
             IN  IF ~Ok(cred) THEN cred
                 ELSE LET pushed == Call(cred, Push(forced.value))
                      IN  IF push_ok
                          THEN Created(pushed, "pushed",
                                       <<s.organization_name, s.project_name,
                                         s.repository_name>>)
                          ELSE Throw(remove_git_remote(pushed, s.organization_name,
                                                       s.project_name, s.repository_name),
                                     PushError)


(***************************************************************************)
(* process_github_personal_access_token, process_github_repository         *)
(***************************************************************************)
\* the tokens adbp.check_github_pat accepts, and what a user may type
ValidPats == {"pat_ok"}
PatPrompts == {"", "pat_bad", "pat_ok"}

\* the repositories adbp.check_github_repository accepts, and what a user may type
G1 == <<"o", "/", "r">>
ValidGithubRepositories == {G1}
GithubRepositoryPrompts == {<<>>, <<"x">>, G1}

\* adbp.check_github_pat: whether GitHub accepts the token
check_github_pat(pat) == pat \in ValidPats

\* adbp.check_github_repository: whether the repository exists for the token
check_github_repository(pat, repository) ==
    pat \in ValidPats /\ repository \in ValidGithubRepositories

\* (a variant that asks until the token is non-empty, without the check)
RECURSIVE PatLoop_NonEmpty(_, _)
PatLoop_NonEmpty(st, typed) ==
    IF ~Truthy(st.self.github_pat)
    THEN PatLoop_NonEmpty(Set(Call(st, "prompt:github_pat"), "github_pat", Head(typed)),
                          Tail(typed))
    ELSE Call(st, "check_github_pat")

\* typed are the answers to the prompt, in order
RECURSIVE PatLoop(_, _)
PatLoop(st, typed) ==
    LET pat == st.self.github_pat
        checked == IF Truthy(pat) THEN Call(st, "check_github_pat") ELSE st
    IN  IF ~Truthy(pat) \/ ~check_github_pat(pat)
        THEN PatLoop(Set(Call(checked, "prompt:github_pat"), "github_pat", Head(typed)),
                     Tail(typed))
        ELSE checked

process_github_personal_access_token(st, typed) == PatLoop(st, typed)

RECURSIVE RepositoryLoop(_, _)
RepositoryLoop(st, typed) ==
    LET repository == st.self.github_repository
        checked == IF TruthyStr(repository) THEN Call(st, "check_github_repository") ELSE st
    IN  IF ~TruthyStr(repository) \/ ~check_github_repository(st.self.github_pat, repository)
        THEN RepositoryLoop(Set(Call(checked, "prompt:github_repository"),
                                "github_repository", Head(typed)), Tail(typed))
        ELSE checked

process_github_repository(st, typed) == RepositoryLoop(st, typed)

(***************************************************************************)
(* process_yaml_github                                                     *)
(***************************************************************************)
CreateGithubYaml_Overwrite(overwrite) == "create_github_yaml(overwrite=True)"

CreateGithubYaml(overwrite) == IF overwrite THEN "create_github_yaml(overwrite=True)"
                               ELSE "create_github_yaml"
GithubYamlOutcomes == {"ok", "LanguageNotSupportException", "GithubUnauthorizedError"}

\* what the try block around adbp.create_github_yaml does with its outcome
GithubYamlResult(st, outcome, permission_message) ==
    IF outcome = "LanguageNotSupportException"
    THEN Throw(st, NotSupportedError(
             Raise("LanguageNotSupportException", st.self.functionapp_language, <<>>)))
    ELSE IF outcome = "GithubUnauthorizedError"
    THEN Throw(st, Raise("CLIError", permission_message, <<>>))
    ELSE st

\* does_yaml_file_exist is what adbp.check_github_file returns for
\* azure-pipelines.yml; answer is the answer to the prompt
process_yaml_github(st, does_yaml_file_exist, answer, outcome) ==
    LET c1 == Call(st, "check_github_file:azure-pipelines.yml")
        asked == IF does_yaml_file_exist /\ st.self.overwrite_yaml = None
                 THEN Set(Call(c1, "prompt_y_n:overwrite_yaml"), "overwrite_yaml", PyBool(answer))
                 ELSE c1
    IN  IF ~does_yaml_file_exist
        THEN GithubYamlResult(Call(asked, CreateGithubYaml(FALSE)), outcome,
                              "Sorry, you do not have sufficient permission to commit")
        ELSE IF asked.self.overwrite_yaml = PyTrue
        THEN GithubYamlResult(Call(asked, CreateGithubYaml(TRUE)), outcome,
                              "Sorry, you do not have sufficient permission to overwrite")
        ELSE asked

(***************************************************************************)
(* Service endpoints and extensions                                        *)
(***************************************************************************)
\* what adbp.get_service_endpoints may return: the names of the endpoints
ServiceEndpointLists == {<<>>, <<"endpoint1", "endpoint2">>}

\* the error raised when adbp.create_service_endpoint raises RoleAssignmentException
RoleAssignmentError ==
    Format("To use the Azure DevOps Pipeline Build,", <<"ls", "ls">>, [ls |-> "\n"])

\* (a variant that leaves the remote bound when the role assignment fails)
process_functionapp_service_endpoint_KeepRemote(st, scenario, service_endpoints, create_ok) ==
    LET c1 == Call(st, "get_service_endpoints")
    IN  IF service_endpoints = <<>>
        THEN LET c2 == Call(c1, "create_service_endpoint")
             IN  IF ~create_ok
                 THEN Throw(c2, RoleAssignmentError)
                 ELSE Set(Created(c2, "service_endpoints", "new_endpoint"),
                          "service_endpoint_name", "new_endpoint")
        ELSE Set(c1, "service_endpoint_name", service_endpoints[1])

\* (a variant that removes the remote in either scenario)
process_functionapp_service_endpoint_AlwaysRemove(st, scenario, service_endpoints, create_ok) ==
    LET s == st.self
        repository == IF scenario = "AZURE_DEVOPS" THEN s.repository_name
                      ELSE s.github_repository
        c1 == Call(st, "get_service_endpoints")
    IN  IF service_endpoints = <<>>
        THEN LET c2 == Call(c1, "create_service_endpoint")
             IN  IF ~create_ok
                 THEN Throw(remove_git_remote(c2, s.organization_name, s.project_name,
                                              repository),
                            RoleAssignmentError)
                 ELSE Set(Created(c2, "service_endpoints", "new_endpoint"),
                          "service_endpoint_name", "new_endpoint")
        ELSE Set(c1, "service_endpoint_name", service_endpoints[1])

\* create_ok is FALSE when adbp.create_service_endpoint raises RoleAssignmentException
process_functionapp_service_endpoint(st, scenario, service_endpoints, create_ok) ==
    LET s == st.self
        repository == IF scenario = "AZURE_DEVOPS" THEN s.repository_name
                      ELSE s.github_repository
        c1 == Call(st, "get_service_endpoints")
    IN  IF service_endpoints = <<>>
        THEN LET c2 == Call(c1, "create_service_endpoint")
             IN  IF ~create_ok
                 THEN Throw(IF scenario = "AZURE_DEVOPS"
                            THEN remove_git_remote(c2, s.organization_name, s.project_name,
                                                   repository)
                            ELSE c2,
                            RoleAssignmentError)
                 ELSE Set(Created(c2, "service_endpoints", "new_endpoint"),
                          "service_endpoint_name", "new_endpoint")
        ELSE Set(c1, "service_endpoint_name", service_endpoints[1])

GithubServiceEndpointLists == {<<>>, <<"github1">>}

process_github_service_endpoint(st, service_endpoints) ==
    LET c1 == Call(st, "get_github_service_endpoints")
    IN  IF service_endpoints = <<>>
        THEN Set(Created(Call(c1, "create_github_service_endpoint"),
                         "github_service_endpoints", "new_github"),
                 "github_service_endpoint_name", "new_github")
        ELSE Set(c1, "github_service_endpoint_name", service_endpoints[1])

process_extensions(st) ==
    IF st.self.functionapp_type = LINUX_CONSUMPTION
    THEN Created(Created(Call(Call(st, "create_extension"), "create_extension"),
                         "extensions", "AzureAppServiceSetAppSettings"),
                 "extensions", "PascalNaber-Xpirit-CreateSasToken")
    ELSE st

(***************************************************************************)
(* process_build_and_release_definition_name                               *)
(***************************************************************************)
MaxNameLen == 256
GithubBuildPrefix == BuildPrefix \o <<"g", "i", "t", "h", "u", "b", "_">>
GithubReleasePrefix == ReleasePrefix \o <<"g", "i", "t", "h", "u", "b", "_">>

\* the names for the AZURE_DEVOPS scenario
DevopsBuildName(repository_remote_name) ==
    Slice(ReplaceFirst(repository_remote_name, AzureDevopsPrefix, BuildPrefix), MaxNameLen)
DevopsReleaseName(repository_remote_name) ==
    Slice(ReplaceFirst(repository_remote_name, AzureDevopsPrefix, ReleasePrefix), MaxNameLen)

\* the names for the GITHUB_INTEGRATION scenario: the slice binds to the
\* replaced repository name, the prefix is added to the slice
GithubBuildName(github_repository) ==
    GithubBuildPrefix \o Slice(ReplaceFirst(github_repository, <<"/">>, <<"_">>), MaxNameLen)
GithubReleaseName(github_repository) ==
    GithubReleasePrefix \o Slice(ReplaceFirst(github_repository, <<"/">>, <<"_">>), MaxNameLen)

\* (a variant that numbers the names of every run after the first)
process_build_and_release_definition_name_PerRun(st, scenario) ==
    LET s == st.self
        run == IF "rerun" \in Range(st.trace) THEN <<"2">> ELSE <<>>
    IN  IF scenario = "AZURE_DEVOPS"
        THEN Set(Set(st, "build_definition_name",
                     DevopsBuildName(s.repository_remote_name) \o run),
                 "release_definition_name", DevopsReleaseName(s.repository_remote_name) \o run)
        ELSE IF scenario = "GITHUB_INTEGRATION"
        THEN Set(Set(st, "build_definition_name", GithubBuildName(s.github_repository) \o run),
                 "release_definition_name", GithubReleaseName(s.github_repository) \o run)
        ELSE st

process_build_and_release_definition_name(st, scenario) ==
    LET s == st.self
    IN  IF scenario = "AZURE_DEVOPS"
        THEN Set(Set(st, "build_definition_name", DevopsBuildName(s.repository_remote_name)),
                 "release_definition_name", DevopsReleaseName(s.repository_remote_name))
        ELSE IF scenario = "GITHUB_INTEGRATION"
        THEN Set(Set(st, "build_definition_name", GithubBuildName(s.github_repository)),
                 "release_definition_name", GithubReleaseName(s.github_repository))
        ELSE st


(***************************************************************************)
(* process_build                                                           *)
(***************************************************************************)
\* build_definitions are the names adbp.list_build_definitions returns;
\* create_ok is FALSE when adbp.create_github_build_definition raises
\* GithubIntegrationRequestError
\* (a variant that takes any existing definition for a match)
BuildDefinitionMatch_Any(build_definitions, build_definition_name) == build_definitions

\* the definitions listed whose name is the derived one
BuildDefinitionMatch(build_definitions, build_definition_name) ==
    {b \in build_definitions : b = build_definition_name}

\* the build adbp.create_build_object queues
QueuedBuild(s) ==
    [id |-> "build1", build_definition_name |-> s.build_definition_name,
     pool_name |-> s.build_pool_name]

\* build_definitions are the names adbp.list_build_definitions returns;
\* create_ok is FALSE when adbp.create_github_build_definition raises
\* GithubIntegrationRequestError
process_build(st, scenario, build_definitions, create_ok) ==
    LET s == st.self
        c1 == Call(st, "list_build_definitions")
        build_definition_match ==
            BuildDefinitionMatch(build_definitions, s.build_definition_name)
        made == IF build_definition_match = {}
                THEN IF scenario = "AZURE_DEVOPS"
                     THEN Created(Call(c1, "create_devops_build_definition"),
                                  "build_definitions", s.build_definition_name)
                     ELSE IF scenario = "GITHUB_INTEGRATION"
                     THEN IF create_ok
                          THEN Created(Call(c1, "create_github_build_definition"),
                                       "build_definitions", s.build_definition_name)
                          ELSE Throw(Call(c1, "create_github_build_definition"),
                                     Format("{error}", <<"error", "ls", "ls">>,
                                            [error |-> "<gire.message>", ls |-> "\n"]))
                     ELSE c1
                ELSE c1
    IN  IF ~Ok(made) THEN made
        ELSE Set(Created(Call(made, "create_build_object"), "builds", QueuedBuild(s)),
                 "build", QueuedBuild(s).id)

(***************************************************************************)
(* process_release                                                         *)
(***************************************************************************)
\* the local variables when process_release starts: build = None, counter = 0
NoPoll == [counter |-> 0, polled |-> FALSE, status |-> None, result |-> None]

\* what adbp.list_build_objects may report of the queued build
BuildReports ==
    {[status |-> "inProgress", result |-> None], [status |-> "completed", result |-> None],
     [status |-> "completed", result |-> "succeeded"],
     [status |-> "completed", result |-> "failed"],
     [status |-> "completed", result |-> "canceled"]}

\* the polls one run of the model makes at most
MaxPolls == 2
SleepSeconds == 5

\* (a variant that waits for the status 'completed')
Waiting_ByStatus(p) == ~p.polled \/ p.status /= "completed"

\* logger.warning("building artifacts ... {counter}s ({status})")
BuildingLog(status) ==
    IF status = "completed" THEN "logger.warning:building artifacts (completed)"
    ELSE "logger.warning:building artifacts (inProgress)"

\* (a variant that gives the wait up after MaxPolls turns)
Waiting_Bounded(p) == (~p.polled \/ p.result = None) /\ p.counter < MaxPolls * SleepSeconds

\* while build is None or build.result is None
Waiting(p) == ~p.polled \/ p.result = None

\* (a variant that takes any existing definition for a match)
ReleaseDefinitionMatch_Any(release_definitions, release_definition_name) == release_definitions

\* the definitions listed whose name is the derived one
ReleaseDefinitionMatch(release_definitions, release_definition_name) ==
    {r \in release_definitions : r = release_definition_name}

\* what adbp.create_release_definition is called with
NewReleaseDefinition(s) ==
    [name |-> s.release_definition_name,
     build_definition_name |-> s.build_definition_name,
     artifact_name |-> s.artifact_name,
     pool_name |-> s.release_pool_name,
     service_endpoint_name |-> s.service_endpoint_name,
     functionapp_type |-> s.functionapp_type,
     functionapp_name |-> s.functionapp_name,
     storage_name |-> s.storage_name,
     resource_group_name |-> s.resource_group_name,
     settings |-> s.settings]

\* the release adbp.create_release triggers
TriggeredRelease(s) == [id |-> "release1", release_definition_name |-> s.release_definition_name]

\* release_definitions are the names adbp.list_release_definitions returns;
\* release_ok is FALSE when adbp.create_release raises ReleaseErrorException
AfterBuild(st, build, release_definitions, release_ok) ==
    LET s == st.self
    IN  IF build.result = "failed"
        THEN Throw(st, Format("Sorry, your build has failed in Azure Devops.",
                              <<"ls", "url">>, [url |-> "<url>", ls |-> "\n"]))
        ELSE
        LET c1 == Call(st, "list_release_definitions")
            release_definition_match ==
                ReleaseDefinitionMatch(release_definitions, s.release_definition_name)
            made == IF release_definition_match = {}
                    THEN Created(Call(c1, "create_release_definition"), "release_definitions",
                                 NewReleaseDefinition(s))
                    ELSE c1
            c2 == Call(Call(made, "sleep"), "create_release")
        IN  IF ~release_ok
            THEN Throw(c2, Format("Sorry, your release has failed in Azure Devops.",
                                  <<"ls", "url">>, [url |-> "<url>", ls |-> "\n"]))
            ELSE Set(Created(c2, "releases", TriggeredRelease(s)), "release",
                     TriggeredRelease(s).id)

(***************************************************************************)
(* The two flows                                                           *)
(***************************************************************************)
azure_devops_flow ==
    <<"process_functionapp", "pre_checks_azure_devops", "process_organization",
      "process_project", "process_yaml_local", "process_local_repository",
      "process_remote_repository", "process_functionapp_service_endpoint",
      "process_extensions", "process_build_and_release_definition_name", "process_build",
      "process_release", "return">>

github_flow ==
    <<"process_github_personal_access_token", "process_github_repository",
      "process_functionapp", "pre_checks_github", "process_organization", "process_project",
      "process_yaml_github", "process_functionapp_service_endpoint",
      "process_github_service_endpoint", "process_extensions",
      "process_build_and_release_definition_name", "process_build", "process_release",
      "return">>

\* the flow interactive_azure_devops_build runs for a scenario
FlowOf(scenario) ==
    IF scenario = "AZURE_DEVOPS" THEN azure_devops_flow
    ELSE IF scenario = "GITHUB_INTEGRATION" THEN github_flow
    ELSE <<>>

\* (a variant in which both flows pass 'AZURE_DEVOPS')
FlowScenario_Devops == "AZURE_DEVOPS"

\* the scenario each flow passes to its scenario-parameterised steps
FlowScenario == IF self.scenario = "AZURE_DEVOPS" THEN "AZURE_DEVOPS" ELSE "GITHUB_INTEGRATION"

\* the step after step in the running flow
Succ(step) ==
    LET flow == FlowOf(self.scenario)
        i == CHOOSE j \in DOMAIN flow : flow[j] = step
    IN  flow[i + 1]

Here == State(self, NoErr, trace, git, devops)

\* (a variant in which the flow goes on to its next step after a failure)
Finish_Continue(step, st) ==
    /\ self' = st.self
    /\ err' = st.err
    /\ trace' = st.trace
    /\ git' = st.git
    /\ devops' = st.devops
    /\ pc' = Succ(step)

\* a step ended in state st: the flow goes on, or the exception ends it
Finish(step, st) ==
    /\ self' = st.self
    /\ err' = st.err
    /\ trace' = st.trace
    /\ git' = st.git
    /\ devops' = st.devops
    /\ pc' = IF Ok(st) THEN Succ(step) ELSE "failed"


(***************************************************************************)
(* The arguments of a run, and the remotes bound beforehand                *)
(***************************************************************************)
FlagArgs == {None, "true", "false"}

\* a run with every argument left out
NoArguments ==
    [functionapp_name |-> None, organization_name |-> None, project_name |-> NoneStr,
     repository_name |-> NoneStr, overwrite_yaml |-> None, allow_force_push |-> None,
     use_local_settings |-> None, github_pat |-> None, github_repository |-> NoneStr]

\* the arguments that decide the scenario
SourceArguments ==
    [repository_name : {NoneStr, <<>>, R1}, github_pat : {None, "", "pat_ok"},
     github_repository : {NoneStr, <<>>, G1}]

\* a with the fields of b replaced by b's
Override(a, b) == [f \in DOMAIN a |-> IF f \in DOMAIN b THEN b[f] ELSE a[f]]

\* the git remotes the working copy may have before the run
GitRemoteSets ==
    {{}, {get_local_git_remote_name("org1", P1, P1)}}

InitWith(arguments, remotes) ==
    /\ \E a \in arguments : self = NewSession(a)
    /\ pc = "check_scenario"
    /\ err = NoErr
    /\ trace = <<>>
    /\ git \in remotes
    /\ devops = NoDevops
    /\ poll = NoPoll
    /\ result = None

(***************************************************************************)
(* The steps                                                               *)
(***************************************************************************)
\* interactive_azure_devops_build up to the call of the flow
CheckScenario ==
    /\ pc = "check_scenario"
    /\ \E choice_index \in 0..(Len(SUPPORTED_SOURCECODE_LOCATIONS) - 1) :
        LET st == check_scenario(Here, choice_index)
            flow == FlowOf(st.self.scenario)
        IN  /\ self' = st.self
            /\ trace' = st.trace
            /\ IF flow = <<>>
               THEN pc' = "failed" /\ err' = Raise("CLIError", "Unknown scenario", <<>>)
               ELSE pc' = flow[1] /\ err' = NoErr
    /\ UNCHANGED <<git, devops, poll, result>>

ProcessFunctionapp ==
    /\ pc = "process_functionapp"
    /\ \E functionapps \in FunctionAppLists :
       \E choice_index \in 0..(IF functionapps = {} THEN 0 ELSE Cardinality(functionapps) - 1) :
            Finish("process_functionapp", process_functionapp(Here, functionapps, choice_index))
    /\ UNCHANGED <<poll, result>>

PreChecksAzureDevops ==
    /\ pc = "pre_checks_azure_devops"
    /\ \E check_git \in BOOLEAN, host_json \in BOOLEAN, local_settings_json \in BOOLEAN,
          settings \in LocalSettingsFiles :
            Finish("pre_checks_azure_devops",
                   pre_checks_azure_devops(Here, check_git, host_json, local_settings_json,
                                           settings))
    /\ UNCHANGED <<poll, result>>

PreChecksGithub ==
    /\ pc = "pre_checks_github"
    /\ \E host_json \in BOOLEAN, content \in GithubContents :
            Finish("pre_checks_github", pre_checks_github(Here, host_json, content))
    /\ UNCHANGED <<poll, result>>

ProcessOrganization ==
    /\ pc = "process_organization"
    /\ \E organizations \in {o \in OrganizationLists : devops.organizations \subseteq o},
          use_existing \in BOOLEAN, region_index \in 0..(Cardinality(RegionNames) - 1) :
       \E choice_index \in 0..(IF organizations = {} THEN 0 ELSE Cardinality(organizations) - 1),
          names \in Attempts(OrganizationPrompts \cap RefusedOrganizationNames,
                             OrganizationPrompts \ RefusedOrganizationNames, MaxAttempts) :
            Finish("process_organization",
                   process_organization(Here, organizations, use_existing, choice_index,
                                        region_index, names))
    /\ UNCHANGED <<poll, result>>

ProcessProject ==
    /\ pc = "process_project"
    /\ \E projects \in {p \in ProjectLists : \A c \in devops.projects : c[2] \in p},
          use_existing \in BOOLEAN :
       \E choice_index \in 0..(IF projects = {} THEN 0 ELSE Cardinality(projects) - 1),
          names \in Attempts(ProjectPrompts \cap RefusedProjectNames,
                             ProjectPrompts \ RefusedProjectNames, MaxAttempts) :
            Finish("process_project",
                   process_project(Here, projects, use_existing, choice_index, names))
    /\ UNCHANGED <<poll, result>>

\* local.settings.json is the file the pre-check read: it declares the
\* runtime language the pre-check compared
ProcessYamlLocal ==
    /\ pc = "process_yaml_local"
    /\ \E data \in {d \in LocalSettingsFiles : DeclaredRuntime(d) = self.functionapp_language},
          yaml_exists \in BOOLEAN, copy \in BOOLEAN, overwrite \in BOOLEAN, yaml_ok \in BOOLEAN :
            Finish("process_yaml_local",
                   process_yaml_local(Here, data, yaml_exists, copy, overwrite, yaml_ok))
    /\ UNCHANGED <<poll, result>>

ProcessLocalRepository ==
    /\ pc = "process_local_repository"
    /\ \E typed \in RepositoryPrompts, setup_ok \in BOOLEAN :
            Finish("process_local_repository", process_local_repository(Here, typed, setup_ok))
    /\ UNCHANGED <<poll, result>>

\* a repository an earlier run created exists, and has branches once pushed to
Repositories(s) ==
    LET r == <<s.organization_name, s.project_name, s.repository_name>>
    IN  {x \in RemoteRepositories :
            /\ r \in devops.repositories => x.exists
            /\ r \in devops.pushed => x.branches /= <<>>}

ProcessRemoteRepository ==
    /\ pc = "process_remote_repository"
    /\ \E repository \in Repositories(self), force_answer \in BOOLEAN,
          credential_manager \in BOOLEAN, credential_answer \in BOOLEAN, push_ok \in BOOLEAN :
            Finish("process_remote_repository",
                   process_remote_repository(Here, repository, force_answer,
                                             credential_manager, credential_answer, push_ok))
    /\ UNCHANGED <<poll, result>>

\* the typed answers with which the loop of a GitHub step ends: none when the
\* value given is accepted as it is
Typed(given_ok, invalid, valid) ==
    IF given_ok THEN {<<>>} ELSE Attempts(invalid, valid, MaxAttempts)

ProcessGithubPersonalAccessToken ==
    /\ pc = "process_github_personal_access_token"
    /\ \E typed \in Typed(self.github_pat \in ValidPats, PatPrompts \ ValidPats,
                          PatPrompts \cap ValidPats) :
            Finish("process_github_personal_access_token",
                   process_github_personal_access_token(Here, typed))
    /\ UNCHANGED <<poll, result>>

ProcessGithubRepository ==
    /\ pc = "process_github_repository"
    /\ \E typed \in Typed(self.github_repository \in ValidGithubRepositories,
                          GithubRepositoryPrompts \ ValidGithubRepositories,
                          GithubRepositoryPrompts \cap ValidGithubRepositories) :
            Finish("process_github_repository", process_github_repository(Here, typed))
    /\ UNCHANGED <<poll, result>>

ProcessYamlGithub ==
    /\ pc = "process_yaml_github"
    /\ \E does_yaml_file_exist \in BOOLEAN, answer \in BOOLEAN, outcome \in GithubYamlOutcomes :
            Finish("process_yaml_github",
                   process_yaml_github(Here, does_yaml_file_exist, answer, outcome))
    /\ UNCHANGED <<poll, result>>

\* an endpoint an earlier run created is the one listed
ServiceEndpoints ==
    IF devops.service_endpoints = {} THEN ServiceEndpointLists ELSE {<<"new_endpoint">>}

GithubServiceEndpoints ==
    IF devops.github_service_endpoints = {} THEN GithubServiceEndpointLists
    ELSE {<<"new_github">>}

ProcessFunctionappServiceEndpoint ==
    /\ pc = "process_functionapp_service_endpoint"
    /\ \E service_endpoints \in ServiceEndpoints, create_ok \in BOOLEAN :
            Finish("process_functionapp_service_endpoint",
                   process_functionapp_service_endpoint(Here, FlowScenario, service_endpoints,
                                                        create_ok))
    /\ UNCHANGED <<poll, result>>

ProcessGithubServiceEndpoint ==
    /\ pc = "process_github_service_endpoint"
    /\ \E service_endpoints \in GithubServiceEndpoints :
            Finish("process_github_service_endpoint",
                   process_github_service_endpoint(Here, service_endpoints))
    /\ UNCHANGED <<poll, result>>

ProcessExtensions ==
    /\ pc = "process_extensions"
    /\ Finish("process_extensions", process_extensions(Here))
    /\ UNCHANGED <<poll, result>>

ProcessBuildAndReleaseDefinitionName ==
    /\ pc = "process_build_and_release_definition_name"
    /\ Finish("process_build_and_release_definition_name",
              process_build_and_release_definition_name(Here, FlowScenario))
    /\ UNCHANGED <<poll, result>>

\* a name that differs from name only at its end
OtherName(name) == Append(name, "2")

\* the definitions a project may have, as to a derived name: none, one of
\* that name, one of another name, or both
DefinitionLists(name) == SUBSET {name, OtherName(name)}

\* those that hold the definitions an earlier run created
BuildDefinitions ==
    {l \in DefinitionLists(self.build_definition_name) : devops.build_definitions \subseteq l}
ReleaseDefinitions ==
    {l \in DefinitionLists(self.release_definition_name) :
        \A d \in devops.release_definitions : d.name \in l}

ProcessBuild ==
    /\ pc = "process_build"
    /\ \E build_definitions \in BuildDefinitions, create_ok \in BOOLEAN :
            Finish("process_build",
                   process_build(Here, FlowScenario, build_definitions, create_ok))
    /\ UNCHANGED <<poll, result>>

\* one turn of the loop of process_release: sleep, then _get_build_by_id, which
\* raises StopIteration when the build is not among those listed
PollBuild ==
    /\ pc = "process_release"
    /\ Waiting(poll)
    /\ poll.counter < MaxPolls * SleepSeconds
    /\ LET polled == Call(Call(Here, "sleep"), "list_build_objects")
       IN  \/ /\ Finish("process_release", Throw(polled, Raise("StopIteration", "", <<>>)))
              /\ UNCHANGED poll
           \/ \E build \in BuildReports :
                /\ poll' = [counter |-> poll.counter + SleepSeconds, polled |-> TRUE,
                            status |-> build.status, result |-> build.result]
                /\ trace' = Call(polled, BuildingLog(build.status)).trace
                /\ UNCHANGED <<self, pc, err, git, devops>>
    /\ UNCHANGED result

\* process_release after its loop
ProcessRelease ==
    /\ pc = "process_release"
    /\ ~Waiting(poll)
    /\ \E release_definitions \in ReleaseDefinitions, release_ok \in BOOLEAN :
            Finish("process_release", AfterBuild(Here, poll, release_definitions, release_ok))
    /\ UNCHANGED <<poll, result>>

\* the mapping the flow returns
ReturnValue(s) ==
    [source_location |-> IF s.scenario = "AZURE_DEVOPS" THEN "local" ELSE "Github",
     functionapp_name |-> s.functionapp_name,
     storage_name |-> s.storage_name,
     resource_group_name |-> s.resource_group_name,
     functionapp_language |-> s.functionapp_language,
     functionapp_type |-> s.functionapp_type,
     organization_name |-> s.organization_name,
     project_name |-> s.project_name,
     repository_name |-> IF s.scenario = "AZURE_DEVOPS" THEN s.repository_name
                         ELSE s.github_repository,
     service_endpoint_name |-> s.service_endpoint_name,
     build_definition_name |-> s.build_definition_name,
     release_definition_name |-> s.release_definition_name]

FlowReturns ==
    /\ pc = "return"
    /\ result' = ReturnValue(self)
    /\ pc' = "done"
    /\ UNCHANGED <<self, err, trace, git, devops, poll>>

Next ==
    \/ CheckScenario
    \/ ProcessGithubPersonalAccessToken
    \/ ProcessGithubRepository
    \/ ProcessFunctionapp
    \/ PreChecksAzureDevops
    \/ PreChecksGithub
    \/ ProcessOrganization
    \/ ProcessProject
    \/ ProcessYamlLocal
    \/ ProcessYamlGithub
    \/ ProcessLocalRepository
    \/ ProcessRemoteRepository
    \/ ProcessFunctionappServiceEndpoint
    \/ ProcessGithubServiceEndpoint
    \/ ProcessExtensions
    \/ ProcessBuildAndReleaseDefinitionName
    \/ ProcessBuild
    \/ PollBuild
    \/ ProcessRelease
    \/ FlowReturns

(***************************************************************************)
(* Specifications                                                          *)
(***************************************************************************)
\* A whole run, with every resource named on the command line.
Arguments ==
    {Override(NoArguments, a) :
        a \in [functionapp_name : {"app_py"}, organization_name : {"org1"},
               project_name : {P1}, repository_name : {NoneStr, R1},
               github_repository : {NoneStr, G1}]}

Init == InitWith(Arguments, {{}})

Spec == Init /\ [][Next]_vars

\* The naming step alone, on names of every length up to MaxRepositoryLen: the
\* run is about to derive the definition names of its scenario.
MaxRepositoryLen == 300

RepositoryNames == {Repeat("r", n) : n \in 0..MaxRepositoryLen}
RemoteNames ==
    {get_local_git_remote_name("org1", P1, r) : r \in RepositoryNames}
        \cup {get_local_git_remote_name("org1", P1, AzureDevopsPrefix \o r) :
                  r \in RepositoryNames}
GithubNames == {<<"o", "/">> \o r : r \in RepositoryNames}
                   \cup {<<"o", "/">> \o r \o <<"/">> : r \in RepositoryNames}

NamingSession(scenario, repository_remote_name, github_repository) ==
    [NewSession(NoArguments) EXCEPT !.scenario = scenario,
                                    !.repository_remote_name = repository_remote_name,
                                    !.github_repository = github_repository]

InitNames ==
    /\ \/ \E r \in RemoteNames : self = NamingSession("AZURE_DEVOPS", r, NoneStr)
       \/ \E g \in GithubNames : self = NamingSession("GITHUB_INTEGRATION", NoneStr, g)
    /\ pc = "process_build_and_release_definition_name"
    /\ err = NoErr
    /\ trace = <<>>
    /\ git = {}
    /\ devops = NoDevops
    /\ poll = NoPoll
    /\ result = None

NextNames == ProcessBuildAndReleaseDefinitionName

SpecNames == InitNames /\ [][NextNames]_vars

\* The start of a run, up to the choice of the project: every combination of
\* the arguments that decide the scenario, with the function app named or not.
StartArguments ==
    {Override(Override(NoArguments, a), b) :
        a \in SourceArguments, b \in [functionapp_name : {None, "app_py", "app_gone"}]}

InitStart == InitWith(StartArguments, {{}})

NextStart ==
    \/ CheckScenario
    \/ ProcessGithubPersonalAccessToken
    \/ ProcessGithubRepository
    \/ ProcessFunctionapp
    \/ PreChecksAzureDevops
    \/ PreChecksGithub
    \/ ProcessOrganization
    \/ ProcessProject

SpecStart == InitStart /\ [][NextStart]_vars

\* The Azure DevOps flow up to the step after the resolvers, with each of the
\* function app, the organization and the project left out, named and
\* existing, or named and missing.
ResolveArguments ==
    {Override(NoArguments, a) :
        a \in [functionapp_name : {None, "app_py", "app_gone"},
               organization_name : {None, "org1", "org9"},
               project_name : {NoneStr, P1, P3},
               repository_name : {R1}]}

InitResolve == InitWith(ResolveArguments, {{}})

NextResolve ==
    \/ CheckScenario
    \/ ProcessFunctionapp
    \/ PreChecksAzureDevops
    \/ ProcessOrganization
    \/ ProcessProject
    \/ ProcessYamlLocal

SpecResolve == InitResolve /\ [][NextResolve]_vars

\* Both flows up to the step after the manifest, with every resource named on
\* the command line and each of the two flags left out, true or false.
YamlArguments ==
    {Override(Override(NoArguments, a), b) :
        a \in [functionapp_name : {"app_py"}, organization_name : {"org1"},
               project_name : {P1}, overwrite_yaml : FlagArgs, use_local_settings : FlagArgs],
        b \in {[repository_name |-> R1], [github_pat |-> "pat_ok", github_repository |-> G1]}}

InitYaml == InitWith(YamlArguments, {{}})

NextYaml ==
    \/ CheckScenario
    \/ ProcessGithubPersonalAccessToken
    \/ ProcessGithubRepository
    \/ ProcessFunctionapp
    \/ PreChecksAzureDevops
    \/ PreChecksGithub
    \/ ProcessOrganization
    \/ ProcessProject
    \/ ProcessYamlLocal
    \/ ProcessYamlGithub
    \/ ProcessLocalRepository
    \/ ProcessFunctionappServiceEndpoint

SpecYaml == InitYaml /\ [][NextYaml]_vars

\* The command run again after a run that failed, with the names the failed
\* run had and no flags: local git and Azure DevOps are as the failed run left
\* them.
MaxRuns == 2

ArgumentsOf(s) ==
    Override(NoArguments,
             [functionapp_name |-> s.functionapp_name,
              organization_name |-> s.organization_name,
              project_name |-> s.project_name,
              repository_name |-> s.repository_name,
              github_pat |-> s.github_pat,
              github_repository |-> s.github_repository])

Rerun ==
    /\ pc = "failed"
    /\ Cardinality({i \in DOMAIN trace : trace[i] = "rerun"}) < MaxRuns - 1
    /\ self' = NewSession(ArgumentsOf(self))
    /\ pc' = "check_scenario"
    /\ err' = NoErr
    /\ trace' = Append(SelectSeq(trace, LAMBDA op : op = "rerun"), "rerun")
    /\ poll' = NoPoll
    /\ UNCHANGED <<git, devops, result>>

RerunArguments ==
    {Override(Override(NoArguments, a), b) :
        a \in [functionapp_name : {"app_py"}, organization_name : {"org1"},
               project_name : {P1}],
        b \in {[repository_name |-> R1], [github_pat |-> "pat_ok", github_repository |-> G1]}}

InitRerun == InitWith(RerunArguments, {{}})

NextRerun == Next \/ Rerun

SpecRerun == InitRerun /\ [][NextRerun]_vars

\* The command run again after a run that ended, failed or not, with the
\* names that run had: Azure DevOps is as the earlier run left it, and the
\* user may have removed the git remote it bound.
RunAgain ==
    /\ pc \in {"failed", "done"}
    /\ Cardinality({i \in DOMAIN trace : trace[i] = "rerun"}) < MaxRuns - 1
    /\ self' = NewSession(ArgumentsOf(self))
    /\ pc' = "check_scenario"
    /\ err' = NoErr
    /\ trace' = Append(SelectSeq(trace, LAMBDA op : op = "rerun"), "rerun")
    /\ git' \in {git, {}}
    /\ poll' = NoPoll
    /\ result' = None
    /\ UNCHANGED devops

NextAgain == Next \/ RunAgain

SpecAgain == InitRerun /\ [][NextAgain]_vars

\* The build wait without a bound on its turns.  A turn of the loop of
\* process_release after the MaxPolls turns whose calls and counter the model
\* records: the same sleep, lookup and log, with only the build observed kept.
PollAgain ==
    /\ pc = "process_release"
    /\ Waiting(poll)
    /\ poll.counter >= MaxPolls * SleepSeconds
    /\ \/ /\ Finish("process_release", Throw(Here, Raise("StopIteration", "", <<>>)))
          /\ UNCHANGED poll
       \/ \E build \in BuildReports :
            /\ poll' = [poll EXCEPT !.polled = TRUE, !.status = build.status,
                                    !.result = build.result]
            /\ UNCHANGED <<self, pc, err, trace, git, devops>>
    /\ UNCHANGED result

\* a turn of the loop, and a turn in which the remote reports a result
LoopTurn == PollBuild \/ PollAgain
ResultReported == LoopTurn /\ poll'.result /= None

NextWait == Next \/ PollAgain

\* the waiting process keeps taking turns, and the remote reports a result of
\* the queued build in the end
SpecWait ==
    InitRerun /\ [][NextWait]_vars /\ WF_vars(LoopTurn) /\ SF_vars(ResultReported)

\* Whole runs of both flows, on a function app with its settings and on one
\* without any.
ReturnArguments ==
    {Override(Override(NoArguments, a), b) :
        a \in [functionapp_name : {"app_py", "app_bare"}, organization_name : {"org1"},
               project_name : {P1}],
        b \in {[repository_name |-> R1], [github_pat |-> "pat_ok", github_repository |-> G1]}}

InitReturn == InitWith(ReturnArguments, {{}})

SpecReturn == InitReturn /\ [][Next]_vars

\* The Azure DevOps flow up to the step after the push, with the function
\* app, the organization and the project named on the command line.
RepositoryArguments ==
    {Override(NoArguments, a) :
        a \in [functionapp_name : {"app_py"}, organization_name : {"org1"},
               project_name : {P1}, repository_name : {NoneStr, R1},
               allow_force_push : FlagArgs]}

\* the git remotes the working copy may have before the run: none, the one of
\* the default repository name, the one of the repository name given, or both
BoundRemoteSets ==
    SUBSET {get_local_git_remote_name("org1", P1, P1), get_local_git_remote_name("org1", P1, R1)}

InitRemote == InitWith(Arguments, BoundRemoteSets)

SpecRemote == InitRemote /\ [][Next]_vars

InitRepository == InitWith(RepositoryArguments, GitRemoteSets)

NextRepository ==
    \/ CheckScenario
    \/ ProcessFunctionapp
    \/ PreChecksAzureDevops
    \/ ProcessOrganization
    \/ ProcessProject
    \/ ProcessYamlLocal
    \/ ProcessLocalRepository
    \/ ProcessRemoteRepository
    \/ ProcessFunctionappServiceEndpoint

SpecRepository == InitRepository /\ [][NextRepository]_vars


(***************************************************************************)
(* Properties                                                              *)
(***************************************************************************)
Made(op) == op \in Range(trace)
Scenarios == {"AZURE_DEVOPS", "GITHUB_INTEGRATION"}
SourcePrompts == {"prompt_choice_list:Current Directory", "prompt_choice_list:Github"}

\* the step in which interactive_azure_devops_build calls check_scenario
ChecksScenario == pc = "check_scenario" /\ pc' /= pc

\* C1: check_scenario selects AZURE_DEVOPS whenever repository_name is given
\* (non-empty), whatever github_pat and github_repository are; when it is not
\* given and one of the GitHub arguments is, it selects GITHUB_INTEGRATION; in
\* neither case is the user asked.
C1_RepositoryNameFirst ==
    [][ChecksScenario =>
        /\ TruthyStr(self.repository_name) =>
              self'.scenario = "AZURE_DEVOPS" /\ trace' = trace
        /\ ~TruthyStr(self.repository_name)
              /\ (Truthy(self.github_pat) \/ TruthyStr(self.github_repository)) =>
              self'.scenario = "GITHUB_INTEGRATION" /\ trace' = trace]_vars

\* C1 witness: the Azure DevOps flow runs although both GitHub arguments are given
C1_Witness ==
    /\ self.scenario = "AZURE_DEVOPS"
    /\ pc = "process_functionapp"
    /\ TruthyStr(self.repository_name)
    /\ Truthy(self.github_pat)
    /\ TruthyStr(self.github_repository)

\* C2: check_scenario always yields one of the two scenarios; the user is asked
\* exactly when none of the three arguments is given, and then the first label
\* ('Current Directory') yields AZURE_DEVOPS and the second ('Github')
\* GITHUB_INTEGRATION; the flow of that scenario starts, so the 'Unknown
\* scenario' error is never raised.
C2_ExactlyOneScenario ==
    [][ChecksScenario =>
        /\ self'.scenario \in Scenarios
        /\ (trace' /= trace) = ScenarioPrompts(self)
        /\ trace' /= trace =>
              /\ Len(trace') = 1 /\ trace'[1] \in SourcePrompts
              /\ trace'[1] = "prompt_choice_list:Current Directory" =>
                    self'.scenario = "AZURE_DEVOPS"
              /\ trace'[1] = "prompt_choice_list:Github" =>
                    self'.scenario = "GITHUB_INTEGRATION"
        /\ err' = NoErr
        /\ pc' = FlowOf(self'.scenario)[1]]_vars

\* C2 witness: the user was asked and picked 'Github'
C2_Witness ==
    /\ Made("prompt_choice_list:Github")
    /\ self.scenario = "GITHUB_INTEGRATION"
    /\ pc = "process_github_personal_access_token"


\* C3: the build definition name and the release definition name that
\* process_build_and_release_definition_name derives are each at most 256
\* characters long, in both scenarios.  (The code violates it for GitHub.)
C3_NamesAtMost256 ==
    pc = "process_build" =>
        /\ Len(self.build_definition_name) <= MaxNameLen
        /\ Len(self.release_definition_name) <= MaxNameLen


\* The calls of a run that leave the machine, and the reads and prompts that
\* do not.
FunctionappCalls == {"list_function_app", "show_webapp", "get_app_settings"}
LocalOps ==
    SourcePrompts \cup
        {"prompt_choice_list:functionapp", "check_git", "os.path.exists:host.json",
         "os.path.exists:local.settings.json", "open:local.settings.json"}
RemoteCalls(t) == Range(t) \ LocalOps

Mentions(e, v) == e /= NoErr /\ \E i \in DOMAIN e.args : e.args[i] = v

\* The pushes of a run.
Pushes(t) == Range(t) \cap {"push_local_to_azure_devops_repository(force=True)",
                            "push_local_to_azure_devops_repository(force=False)"}

\* C4 (as amended): in the Azure DevOps flow, when local.settings.json lacks
\* FUNCTIONS_WORKER_RUNTIME or has it empty, pre_checks_azure_devops fails with
\* a CLIError (the "not defined" one once git, host.json and
\* local.settings.json are present) before any Azure DevOps provisioning call,
\* but after the function app was listed, shown and its settings fetched; the
\* run then makes no further call.
C4_FailsBeforeProvisioning ==
    /\ pc = "pre_checks_azure_devops" =>
        \A check_git \in BOOLEAN, host_json \in BOOLEAN, local_settings_json \in BOOLEAN,
           settings \in LocalSettingsFiles :
            ~Truthy(DeclaredRuntime(settings)) =>
                LET out == pre_checks_azure_devops(Here, check_git, host_json,
                                                   local_settings_json, settings)
                IN  /\ out.err.type = "CLIError"
                    /\ (check_git /\ host_json /\ local_settings_json) =>
                            out.err = NotDefinedError
                    /\ RemoteCalls(out.trace) = FunctionappCalls
                    /\ out.devops = NoDevops
    /\ (err = NotDefinedError /\ self.scenario = "AZURE_DEVOPS") =>
            /\ pc = "failed"
            /\ RemoteCalls(trace) = FunctionappCalls
            /\ devops = NoDevops

C4_Witness ==
    /\ err = NotDefinedError
    /\ self.scenario = "AZURE_DEVOPS"
    /\ pc = "failed"
    /\ Made("open:local.settings.json")
    /\ Made("get_app_settings")

\* C4 as stated: the check fails before any remote call, the function-app
\* listing and the app-settings fetch included.
C4_NoRemoteCallBeforeFailure ==
    pc = "pre_checks_azure_devops" =>
        \A check_git \in BOOLEAN, host_json \in BOOLEAN, local_settings_json \in BOOLEAN,
           settings \in LocalSettingsFiles :
            ~Truthy(DeclaredRuntime(settings)) =>
                LET out == pre_checks_azure_devops(Here, check_git, host_json,
                                                   local_settings_json, settings)
                IN  out.err /= NoErr /\ RemoteCalls(out.trace) = {}

\* C5: when the locally declared runtime language (a supported one) differs
\* from the function app's, the pre-check of either flow fails with a CLIError
\* whose text names both values.  (The code raises KeyError instead.)
NamesBoth(e, local, remote) ==
    e.type = "CLIError" /\ Mentions(e, local) /\ Mentions(e, remote)

C5_MismatchNamesBothValues ==
    /\ pc = "pre_checks_azure_devops" =>
        \A settings \in LocalSettingsFiles :
            LET local == _find_local_repository_runtime_language(settings)
                out == pre_checks_azure_devops(Here, TRUE, TRUE, TRUE, settings)
            IN  (local.err = NoErr /\ local.value /= self.functionapp_language) =>
                    NamesBoth(out.err, local.value, self.functionapp_language)
    /\ pc = "pre_checks_github" =>
        \A content \in GithubContents :
            LET github == _find_github_repository_runtime_language(content)
                out == pre_checks_github(Here, TRUE, content)
            IN  (github.err = NoErr /\ github.value /= None
                     /\ github.value /= self.functionapp_language) =>
                    NamesBoth(out.err, github.value, self.functionapp_language)

\* C6: a runtime language outside the supported ones, whether the function
\* app's settings report it or local.settings.json (local or on GitHub)
\* declares it, fails the step that reads it with an error whose message
\* contains that string; the run stops there.
Unsupported(language) == Truthy(language) /\ ~Truthy(LanguageGet(language))

C6_UnsupportedLanguageNamed ==
    /\ pc = "process_functionapp" =>
        \A functionapps \in FunctionAppLists :
        \A choice_index \in 0..(IF functionapps = {} THEN 0
                                ELSE Cardinality(functionapps) - 1) :
            LET out == process_functionapp(Here, functionapps, choice_index)
            IN  \A f \in functionapps :
                    LET reported == SettingValues(f.app_settings, "FUNCTIONS_WORKER_RUNTIME")
                    IN  (/\ f.name = out.self.functionapp_name
                         /\ reported /= <<>>
                         /\ ~Truthy(LanguageGet(reported[1]))) =>
                            Mentions(out.err, reported[1])
    /\ pc = "pre_checks_azure_devops" =>
        \A settings \in LocalSettingsFiles :
            Unsupported(DeclaredRuntime(settings)) =>
                Mentions(pre_checks_azure_devops(Here, TRUE, TRUE, TRUE, settings).err,
                         DeclaredRuntime(settings))
    /\ pc = "pre_checks_github" =>
        \A content \in GithubContents :
            (content.found /\ Unsupported(DeclaredRuntime(content.content))) =>
                Mentions(pre_checks_github(Here, TRUE, content).err,
                         DeclaredRuntime(content.content))
    /\ err.type = "LanguageNotSupportException" => pc = "failed"

C6_Witness ==
    /\ pc = "failed"
    /\ err.type = "CLIError"
    /\ Mentions(err, "java")
    /\ self.functionapp_name = "app_java"

\* C7 (as amended): the pre-check of either flow fails when the
\* local.settings.json it reads does not declare the worker runtime or
\* declares it empty; in the GitHub flow, when local.settings.json cannot be
\* fetched from the repository, the check is disabled with a warning and the
\* flow goes on.
C7_MissingDeclarationFails ==
    /\ pc = "pre_checks_azure_devops" =>
        \A settings \in LocalSettingsFiles :
            ~Truthy(DeclaredRuntime(settings)) =>
                pre_checks_azure_devops(Here, TRUE, TRUE, TRUE, settings).err = NotDefinedError
    /\ pc = "pre_checks_github" =>
        \A content \in GithubContents :
            LET out == pre_checks_github(Here, TRUE, content)
            IN  /\ (content.found /\ ~Truthy(DeclaredRuntime(content.content))) =>
                        out.err = NotDefinedError
                /\ ~content.found =>
                        /\ Ok(out)
                        /\ "logger.warning:runtime language check is disabled"
                               \in Range(out.trace)
    /\ Made("logger.warning:runtime language check is disabled") =>
            self.scenario = "GITHUB_INTEGRATION"

C7_Witness ==
    /\ Made("logger.warning:runtime language check is disabled")
    /\ pc = "process_organization"
    /\ err = NoErr

\* C7 as stated: the check fails the flow whenever the declaration is missing
\* or empty, also when the GitHub repository's local.settings.json cannot be
\* obtained.
C7_UnobtainableDeclarationFails ==
    /\ pc = "pre_checks_azure_devops" =>
        \A settings \in LocalSettingsFiles :
            ~Truthy(DeclaredRuntime(settings)) =>
                pre_checks_azure_devops(Here, TRUE, TRUE, TRUE, settings).err /= NoErr
    /\ pc = "pre_checks_github" =>
        \A content \in GithubContents :
            (~content.found \/ ~Truthy(DeclaredRuntime(content.content))) =>
                pre_checks_github(Here, TRUE, content).err /= NoErr


\* the repository name process_local_repository settles on
NamedRepository(typed) ==
    IF TruthyStr(self.repository_name) THEN self.repository_name
    ELSE IF TruthyStr(typed) THEN typed ELSE self.project_name

\* C8: if the working copy already has a git remote of the expected computed
\* name, process_local_repository fails at once: it sets nothing up, leaves
\* the remotes as they are, does not set repository_remote_name, and the run
\* never pushes.
C8_BoundRemoteFails ==
    /\ pc = "process_local_repository" =>
        \A typed \in RepositoryPrompts, setup_ok \in BOOLEAN :
            LET out == process_local_repository(Here, typed, setup_ok)
                expected == get_local_git_remote_name(self.organization_name,
                                                      self.project_name,
                                                      NamedRepository(typed))
            IN  expected \in git =>
                    /\ out.err = RemoteBoundError
                    /\ out.git = git
                    /\ "setup_local_git_repository" \notin Range(out.trace)
                    /\ out.self.repository_remote_name = NoneStr
                    /\ Pushes(out.trace) = {}
    /\ err = RemoteBoundError =>
            /\ pc = "failed"
            /\ Pushes(trace) = {}
            /\ ~Made("setup_local_git_repository")
            /\ self.repository_remote_name = NoneStr

C8_Witness ==
    /\ err = RemoteBoundError
    /\ Made("check_git_remote")
    /\ git /= {}

\* whether force-push consent is declined: by the answer to the prompt, or by
\* an allow_force_push flag that is false
Declined(force_answer) ==
    IF self.allow_force_push = None THEN ~force_answer ELSE self.allow_force_push = "false"

\* C9: if the remote repository has branches and force-push consent is
\* declined, by the prompt or by an allow_force_push flag that is false,
\* process_remote_repository removes the git remote that
\* process_local_repository bound and fails, and the run never pushes.
C9_DeclinedRemovesRemote ==
    /\ pc = "process_remote_repository" =>
        \A repository \in RemoteRepositories, force_answer \in BOOLEAN,
           credential_manager \in BOOLEAN, credential_answer \in BOOLEAN,
           push_ok \in BOOLEAN :
            LET out == process_remote_repository(Here, repository, force_answer,
                                                 credential_manager, credential_answer,
                                                 push_ok)
            IN  (repository.branches /= <<>> /\ Declined(force_answer)) =>
                    /\ out.err = ConsentError
                    /\ self.repository_remote_name \in git
                    /\ self.repository_remote_name \notin out.git
                    /\ "remove_git_remote" \in Range(out.trace)
                    /\ "check_git_credential_manager" \notin Range(out.trace)
                    /\ Pushes(out.trace) = {}
    /\ err = ConsentError =>
            /\ pc = "failed"
            /\ Pushes(trace) = {}
            /\ self.repository_remote_name \notin git

C9_Witness ==
    /\ err = ConsentError
    /\ self.allow_force_push = "false"
    /\ Made("remove_git_remote")
    /\ ~Made("check_git_credential_manager")
    /\ pc = "failed"

\* C10: a push of process_remote_repository is made with force=True exactly
\* when the remote repository had branches, and then consent was given (by
\* the prompt or by the flag); when the repository has no branches, the push
\* is made with force=False and consent is not asked.
C10_ForceOnlyWithConsent ==
    /\ pc = "process_remote_repository" =>
        \A repository \in RemoteRepositories, force_answer \in BOOLEAN,
           credential_manager \in BOOLEAN, credential_answer \in BOOLEAN,
           push_ok \in BOOLEAN :
            LET out == process_remote_repository(Here, repository, force_answer,
                                                 credential_manager, credential_answer,
                                                 push_ok)
                pushes == Pushes(out.trace)
            IN  /\ Cardinality(pushes) <= 1
                /\ pushes /= {} <=>
                        /\ repository.branches /= <<>> => ~Declined(force_answer)
                        /\ credential_manager \/ credential_answer
                /\ pushes /= {} =>
                        /\ Push(TRUE) \in pushes <=> repository.branches /= <<>>
                        /\ Push(FALSE) \in pushes <=> repository.branches = <<>>
                /\ repository.branches = <<>> =>
                        "prompt_y_n:force_push" \notin Range(out.trace)
                /\ "prompt_y_n:force_push" \in Range(out.trace) <=>
                        (repository.branches /= <<>> /\ self.allow_force_push = None)
    /\ Made(Push(TRUE)) => self.allow_force_push /= "false"

C10_Witness ==
    /\ Made("push_local_to_azure_devops_repository(force=True)")
    /\ Made("prompt_y_n:force_push")
    /\ pc = "process_functionapp_service_endpoint"


\* how many times op was called
Count(t, op) == Cardinality({i \in DOMAIN t : t[i] = op})

\* C11: process_build creates a build definition exactly when no listed
\* definition has the derived name, with the creation call of the running
\* scenario; whether the definition was created or found, it then queues
\* exactly one build, against that definition name.  (When the GitHub
\* creation call fails the step fails and queues nothing.)
C11_BuildDefinitionOnlyIfAbsent ==
    pc = "process_build" =>
        \A build_definitions \in DefinitionLists(self.build_definition_name),
           create_ok \in BOOLEAN :
            LET out == process_build(Here, FlowScenario, build_definitions, create_ok)
                absent == self.build_definition_name \notin build_definitions
                new(op) == Count(out.trace, op) - Count(trace, op)
                create == IF FlowScenario = "AZURE_DEVOPS"
                          THEN "create_devops_build_definition"
                          ELSE "create_github_build_definition"
                other == IF FlowScenario = "AZURE_DEVOPS"
                         THEN "create_github_build_definition"
                         ELSE "create_devops_build_definition"
            IN  /\ new(create) = IF absent THEN 1 ELSE 0
                /\ new(other) = 0
                /\ out.devops.build_definitions =
                       IF absent /\ Ok(out) THEN {self.build_definition_name} ELSE {}
                /\ Ok(out) <=> (~absent \/ FlowScenario = "AZURE_DEVOPS" \/ create_ok)
                /\ new("create_build_object") = IF Ok(out) THEN 1 ELSE 0
                /\ Ok(out) =>
                    /\ out.devops.builds = {QueuedBuild(self)}
                    /\ out.self.build = QueuedBuild(self).id
                    /\ \A b \in out.devops.builds :
                            b.build_definition_name = self.build_definition_name

C11_Witness ==
    /\ pc = "process_release"
    /\ Made("create_build_object")
    /\ ~Made("create_devops_build_definition")
    /\ ~Made("create_github_build_definition")
    /\ self.build /= None


\* a turn of the loop of process_release that observed the build
Polls == pc = "process_release" /\ poll' /= poll

\* process_release going on after its loop
LeavesLoop == pc = "process_release" /\ poll' = poll /\ err'.type /= "StopIteration"

C13_OnlySucceededReleases ==
    (pc = "process_release" /\ ~Waiting(poll)) =>
        \A release_definitions \in DefinitionLists(self.release_definition_name),
           release_ok \in BOOLEAN :
            LET out == AfterBuild(Here, poll, release_definitions, release_ok)
            IN  /\ poll.result = "failed" => out.err.type = "CLIError"
                /\ poll.result /= "succeeded" =>
                    /\ Count(out.trace, "create_release_definition") = 0
                    /\ Count(out.trace, "create_release") = 0
                    /\ out.devops.release_definitions = {}
                    /\ out.devops.releases = {}


\* C14: process_release creates a release definition exactly when no listed
\* definition has the derived release definition name, passing the session's
\* build definition name, artifact name, release pool, service endpoint name,
\* function app type, name, storage and resource group, and settings; created
\* or found, it then triggers one release against the release definition name.
C14_ReleaseDefinitionOnlyIfAbsent ==
    (pc = "process_release" /\ ~Waiting(poll) /\ poll.result /= "failed") =>
        \A release_definitions \in DefinitionLists(self.release_definition_name),
           release_ok \in BOOLEAN :
            LET out == AfterBuild(Here, poll, release_definitions, release_ok)
                absent == self.release_definition_name \notin release_definitions
                new(op) == Count(out.trace, op) - Count(trace, op)
            IN  /\ new("list_release_definitions") = 1
                /\ new("create_release_definition") = IF absent THEN 1 ELSE 0
                /\ out.devops.release_definitions =
                       IF absent
                       THEN {[name |-> self.release_definition_name,
                              build_definition_name |-> self.build_definition_name,
                              artifact_name |-> self.artifact_name,
                              pool_name |-> self.release_pool_name,
                              service_endpoint_name |-> self.service_endpoint_name,
                              functionapp_type |-> self.functionapp_type,
                              functionapp_name |-> self.functionapp_name,
                              storage_name |-> self.storage_name,
                              resource_group_name |-> self.resource_group_name,
                              settings |-> self.settings]}
                       ELSE {}
                /\ new("create_release") = 1
                /\ Ok(out) <=> release_ok
                /\ Ok(out) =>
                    /\ out.devops.releases =
                           {[id |-> out.self.release,
                             release_definition_name |-> self.release_definition_name]}
                    /\ out.self.release /= None

C14_Witness ==
    /\ pc = "return"
    /\ Made("create_release")
    /\ ~Made("create_release_definition")
    /\ self.release /= None
    /\ self.settings /= <<>>


\* C15: a function app, organization or project named on the command line is
\* only looked up: the resolver lists the remote resources and fails the flow
\* with a CLIError when none has exactly that name; it prompts for nothing,
\* creates nothing and leaves the session field as given.
C15_ExplicitNameOnlyValidated ==
    /\ (pc = "process_functionapp" /\ self.functionapp_name /= None) =>
        \A functionapps \in FunctionAppLists :
            LET out == process_functionapp(Here, functionapps, 0)
                exists == \E f \in functionapps : f.name = self.functionapp_name
            IN  /\ out.self.functionapp_name = self.functionapp_name
                /\ out.devops = devops
                /\ Count(out.trace, "prompt_choice_list:functionapp") = 0
                /\ ~exists =>
                    /\ out.err.type = "CLIError"
                    /\ out.trace = Append(trace, "list_function_app")
                    /\ out.self = self
    /\ (pc = "process_organization" /\ self.organization_name /= None) =>
        \A organizations \in OrganizationLists, use_existing \in BOOLEAN,
           choice_index \in 0..1, region_index \in 0..1,
           names \in Attempts({""}, {"org3"}, MaxAttempts) :
            LET out == process_organization(Here, organizations, use_existing, choice_index,
                                            region_index, names)
            IN  /\ out.trace = Append(trace, "list_organizations")
                /\ out.self = self
                /\ out.devops = devops
                /\ Ok(out) <=> self.organization_name \in organizations
                /\ ~Ok(out) => out.err.type = "CLIError"
    /\ (pc = "process_project" /\ self.project_name /= NoneStr) =>
        \A projects \in ProjectLists, use_existing \in BOOLEAN, choice_index \in 0..1,
           names \in Attempts({<<>>}, {P3}, MaxAttempts) :
            LET out == process_project(Here, projects, use_existing, choice_index, names)
            IN  /\ out.trace = Append(trace, "list_projects")
                /\ out.self = self
                /\ out.devops = devops
                /\ Ok(out) <=> self.project_name \in projects
                /\ ~Ok(out) => out.err.type = "CLIError"
    /\ err.msg \in {"Error finding functionapp", "Error finding organization",
                    "Error finding project"} => pc = "failed"

C15_Witness ==
    /\ err.msg = "Error finding organization"
    /\ self.organization_name = "org9"
    /\ pc = "failed"
    /\ devops = NoDevops

\* the element of names with exactly index elements of names before it in order
Picked(order, names, index) ==
    CHOOSE n \in names :
        Cardinality({m \in names :
                        \E i, j \in DOMAIN order : i < j /\ order[i] = m /\ order[j] = n})
            = index

Consents(answer) ==
    IF self.overwrite_yaml = None THEN answer ELSE self.overwrite_yaml = "True"

\* C17: process_yaml_local generates azure-pipelines.yml without asking when
\* the file is absent; when it is present, it asks for consent only if the
\* overwrite flag was not given, generates the file again exactly when
\* overwriting is consented to, and on refusal leaves it and goes on.
C17_LocalManifest ==
    pc = "process_yaml_local" =>
        \A data \in {d \in LocalSettingsFiles : DeclaredRuntime(d) = self.functionapp_language},
           yaml_exists \in BOOLEAN, copy \in BOOLEAN, overwrite \in BOOLEAN,
           yaml_ok \in BOOLEAN :
            LET out == process_yaml_local(Here, data, yaml_exists, copy, overwrite, yaml_ok)
                new(op) == Count(out.trace, op) - Count(trace, op)
            IN  /\ new("prompt_y_n:overwrite_yaml") =
                       IF yaml_exists /\ self.overwrite_yaml = None THEN 1 ELSE 0
                /\ new("create_yaml") =
                       IF ~yaml_exists \/ Consents(overwrite) THEN 1 ELSE 0
                /\ (yaml_exists /\ ~Consents(overwrite)) => Ok(out)
                /\ Ok(out) <=> (yaml_ok \/ (yaml_exists /\ ~Consents(overwrite)))

C17_Witness ==
    /\ pc = "process_local_repository"
    /\ Made("os.path.exists:azure-pipelines.yml")
    /\ ~Made("create_yaml")
    /\ ~Made("prompt_y_n:overwrite_yaml")
    /\ self.overwrite_yaml = "False"

\* C18: process_yaml_github commits azure-pipelines.yml at most once: without
\* overwrite and without a prompt when the file is absent; with overwrite=True
\* exactly when the file exists and overwriting is consented to, by the flag
\* or, the flag not given, by the prompt; and not at all when the file exists
\* and consent is refused.
C18_GithubManifest ==
    /\ pc = "process_yaml_github" =>
        \A does_yaml_file_exist \in BOOLEAN, answer \in BOOLEAN,
           outcome \in GithubYamlOutcomes :
            LET out == process_yaml_github(Here, does_yaml_file_exist, answer, outcome)
                new(op) == Count(out.trace, op) - Count(trace, op)
            IN  /\ new("create_github_yaml") = IF does_yaml_file_exist THEN 0 ELSE 1
                /\ new("create_github_yaml(overwrite=True)") =
                       IF does_yaml_file_exist /\ Consents(answer) THEN 1 ELSE 0
                /\ new("prompt_y_n:overwrite_yaml") =
                       IF does_yaml_file_exist /\ self.overwrite_yaml = None THEN 1 ELSE 0
                /\ (does_yaml_file_exist /\ ~Consents(answer)) => Ok(out)
    /\ Count(trace, "create_github_yaml") + Count(trace, "create_github_yaml(overwrite=True)")
           <= 1

C18_Witness ==
    /\ pc = "process_functionapp_service_endpoint"
    /\ Made("create_github_yaml(overwrite=True)")
    /\ ~Made("prompt_y_n:overwrite_yaml")
    /\ self.scenario = "GITHUB_INTEGRATION"


\* the fields of the returned mapping that identify what the run set up
IdentifyingFields ==
    {"functionapp_name", "storage_name", "resource_group_name", "functionapp_language",
     "functionapp_type", "organization_name", "project_name", "repository_name",
     "service_endpoint_name", "build_definition_name", "release_definition_name"}
CharFields == {"project_name", "repository_name", "build_definition_name",
               "release_definition_name"}

\* C19: when a flow returns, every identifying field of the mapping it returns
\* is non-null, and the build and release definition names in it are those
\* derived from the run's repository and scenario.  (The code returns a null
\* storage name and a null language for a function app without those
\* settings.)
C19_ReturnedFieldsNonNull ==
    pc = "done" =>
        /\ \A f \in IdentifyingFields \ CharFields : result[f] /= None
        /\ \A f \in CharFields : result[f] /= NoneStr
        /\ self.scenario = "AZURE_DEVOPS" =>
            /\ result.build_definition_name = DevopsBuildName(self.repository_remote_name)
            /\ result.release_definition_name = DevopsReleaseName(self.repository_remote_name)
        /\ self.scenario = "GITHUB_INTEGRATION" =>
            /\ result.build_definition_name = GithubBuildName(self.github_repository)
            /\ result.release_definition_name = GithubReleaseName(self.github_repository)


\* the repository of the run, as Azure DevOps knows it
RunRepository == <<self.organization_name, self.project_name, self.repository_name>>

\* In a run after a failed one, the repository and the build and release
\* definitions the failed run created are found and not created again.
CreatedResourcesReused ==
    Made("rerun") =>
        /\ (pc = "process_remote_repository" /\ RunRepository \in devops.repositories) =>
            \A repository \in Repositories(self), force_answer \in BOOLEAN,
               credential_manager \in BOOLEAN, credential_answer \in BOOLEAN,
               push_ok \in BOOLEAN :
                LET out == process_remote_repository(Here, repository, force_answer,
                                                     credential_manager, credential_answer,
                                                     push_ok)
                IN  Count(out.trace, "create_repository") = 0
        /\ (pc = "process_build" /\ self.build_definition_name \in devops.build_definitions) =>
            \A build_definitions \in BuildDefinitions, create_ok \in BOOLEAN :
                LET out == process_build(Here, FlowScenario, build_definitions, create_ok)
                IN  /\ Count(out.trace, "create_devops_build_definition") = 0
                    /\ Count(out.trace, "create_github_build_definition") = 0
                    /\ Ok(out)
        /\ (pc = "process_release" /\ ~Waiting(poll) /\ poll.result /= "failed"
                /\ \E d \in devops.release_definitions :
                        d.name = self.release_definition_name) =>
            \A release_definitions \in ReleaseDefinitions, release_ok \in BOOLEAN :
                Count(AfterBuild(Here, poll, release_definitions, release_ok).trace,
                      "create_release_definition") = 0

\* In a run after a failed one that created the repository, the step that
\* binds the local repository can succeed.
RerunPassesLocalRepository ==
    (Made("rerun") /\ pc = "process_local_repository"
        /\ RunRepository \in devops.repositories) =>
        \E typed \in RepositoryPrompts, setup_ok \in BOOLEAN :
            Ok(process_local_repository(Here, typed, setup_ok))

\* C20: when the command is run again after a run that failed partway, with
\* the same organization, project and repository, the resources the failed
\* run created are found and reused, and the new run can go past the steps
\* that created them.  (The Azure DevOps flow stops at
\* process_local_repository when the failed run left its git remote bound.)
C20_RerunReusesAndProgresses ==
    CreatedResourcesReused /\ RerunPassesLocalRepository

\* C21: the build and release definition names depend only on the repository
\* and the scenario: over any number of runs against the same repository all
\* the build definitions created have one name and all the release
\* definitions created have one name, a run derives the names of the
\* definitions the earlier runs created, and it creates no definition of a
\* name that one of them created.
C21_OneDefinitionPerRepository ==
    /\ Cardinality(devops.build_definitions) <= 1
    /\ Cardinality({d.name : d \in devops.release_definitions}) <= 1
    /\ Cardinality(devops.release_definitions) <= 1
    /\ pc = "process_build_and_release_definition_name" =>
        LET out == process_build_and_release_definition_name(Here, FlowScenario).self
        IN  /\ \A b \in devops.build_definitions : b = out.build_definition_name
            /\ \A d \in devops.release_definitions : d.name = out.release_definition_name
    /\ (pc = "process_build" /\ self.build_definition_name \in devops.build_definitions) =>
        \A build_definitions \in BuildDefinitions, create_ok \in BOOLEAN :
            LET out == process_build(Here, FlowScenario, build_definitions, create_ok)
            IN  /\ Count(out.trace, "create_devops_build_definition")
                        = Count(trace, "create_devops_build_definition")
                /\ Count(out.trace, "create_github_build_definition")
                        = Count(trace, "create_github_build_definition")
                /\ out.devops.build_definitions = devops.build_definitions
    /\ (pc = "process_release" /\ ~Waiting(poll)
            /\ \E d \in devops.release_definitions : d.name = self.release_definition_name) =>
        \A release_definitions \in ReleaseDefinitions, release_ok \in BOOLEAN :
            LET out == AfterBuild(Here, poll, release_definitions, release_ok)
            IN  /\ Count(out.trace, "create_release_definition")
                        = Count(trace, "create_release_definition")
                /\ out.devops.release_definitions = devops.release_definitions

\* a second run against the same repository ended with the definitions of the
\* first and created none
C21_Witness ==
    /\ pc = "done"
    /\ Made("rerun")
    /\ Cardinality(devops.build_definitions) = 1
    /\ Cardinality(devops.release_definitions) = 1
    /\ ~Made("create_devops_build_definition")
    /\ ~Made("create_github_build_definition")
    /\ ~Made("create_release_definition")
    /\ result.build_definition_name \in devops.build_definitions

\* C22: whatever ends a flow reaches the caller of
\* interactive_azure_devops_build as a CLIError, and as no other exception
\* type.
C22_OnlyCLIErrorEscapes ==
    pc = "failed" => err.type = "CLIError"

\* the calls only azure_devops_flow makes, and those only github_flow makes,
\* the scenario-parameterised steps included
DevopsFlowOps ==
    {"check_git", "os.path.exists:host.json", "create_yaml", "check_git_local_repository",
     "check_git_remote", "setup_local_git_repository", "get_azure_devops_repository",
     "create_repository", "remove_git_remote", "create_devops_build_definition"}
GithubFlowOps ==
    {"check_github_pat", "check_github_repository", "check_github_file:host.json",
     "check_github_file:azure-pipelines.yml", "get_github_service_endpoints",
     "create_github_service_endpoint", "create_github_build_definition"}

\* the definition names the scenario-parameterised naming step gives in s's scenario
ScenarioNames(s) ==
    IF s.scenario = "AZURE_DEVOPS"
    THEN <<DevopsBuildName(s.repository_remote_name), DevopsReleaseName(s.repository_remote_name)>>
    ELSE <<GithubBuildName(s.github_repository), GithubReleaseName(s.github_repository)>>

\* once check_scenario has run, the session has one of the two scenarios and
\* everything the run did belongs to the flow of that scenario
OneFlowRuns ==
    pc /= "check_scenario" =>
        /\ self.scenario \in Scenarios
        /\ pc \in Range(FlowOf(self.scenario)) \cup {"failed", "done"}
        /\ self.scenario = "AZURE_DEVOPS" => Range(trace) \cap GithubFlowOps = {}
        /\ self.scenario = "GITHUB_INTEGRATION" => Range(trace) \cap DevopsFlowOps = {}
        /\ self.build_definition_name \in {NoneStr, ScenarioNames(self)[1]}
        /\ self.release_definition_name \in {NoneStr, ScenarioNames(self)[2]}

\* the scenario is written by check_scenario alone, over the initial None
ScenarioSetOnce ==
    self'.scenario /= self.scenario => pc = "check_scenario" /\ self.scenario = None

\* C23: the scenario of the session is assigned once, by check_scenario, and
\* does not change afterwards; exactly one of the two flows runs, and the
\* service endpoint, naming and build steps of the run work in that scenario.
C23_ScenarioDecidedOnce ==
    []OneFlowRuns /\ [][ScenarioSetOnce]_vars

\* a run of the GitHub flow went through its three scenario-parameterised
\* steps and created its build definition
C23_Witness ==
    /\ pc = "process_release"
    /\ self.scenario = "GITHUB_INTEGRATION"
    /\ Made("get_service_endpoints")
    /\ Made("create_github_build_definition")
    /\ self.build_definition_name = GithubBuildName(G1)

\* C24: in process_remote_repository, once the force-push check has passed:
\* with no git credential manager, the consent to alternate credentials is
\* asked, and declining it removes the git remote and fails the step without
\* a push; with a credential manager the consent is not asked.
C24_DeclinedCredentialRemovesRemote ==
    pc = "process_remote_repository" =>
        \A repository \in RemoteRepositories, force_answer \in BOOLEAN,
           credential_manager \in BOOLEAN, credential_answer \in BOOLEAN,
           push_ok \in BOOLEAN :
            LET out == process_remote_repository(Here, repository, force_answer,
                                                 credential_manager, credential_answer,
                                                 push_ok)
                asked == Count(out.trace, "prompt_y_n:alternate_credentials")
            IN  ~(repository.branches /= <<>> /\ Declined(force_answer)) =>
                    /\ Count(out.trace, "check_git_credential_manager") = 1
                    /\ credential_manager => asked = 0 /\ Pushes(out.trace) /= {}
                    /\ ~credential_manager => asked = 1
                    /\ (~credential_manager /\ credential_answer) => Pushes(out.trace) /= {}
                    /\ (~credential_manager /\ ~credential_answer) =>
                            /\ out.err = ConsentError
                            /\ self.repository_remote_name \in git
                            /\ self.repository_remote_name \notin out.git
                            /\ Count(out.trace, "remove_git_remote") = 1
                            /\ Pushes(out.trace) = {}
                            /\ out.devops.pushed = {}

\* a run failed on the declined credential consent, its remote removed
C24_Witness ==
    /\ pc = "failed"
    /\ err = ConsentError
    /\ Made("prompt_y_n:alternate_credentials")
    /\ Made("remove_git_remote")
    /\ Made("setup_local_git_repository")
    /\ git = {}
    /\ Pushes(trace) = {}

\* what comes after the push in azure_devops_flow
AfterPushCalls ==
    {"get_service_endpoints", "create_service_endpoint", "create_extension",
     "list_build_definitions", "create_devops_build_definition", "create_build_object",
     "list_build_objects", "list_release_definitions", "create_release_definition",
     "create_release"}

\* C25: when the push of process_remote_repository fails, the git remote is
\* removed, after the push and as the last thing the run does, and the flow
\* fails: the run creates no service endpoint, build definition, build,
\* release definition or release.
C25_FailedPushRemovesRemote ==
    /\ pc = "process_remote_repository" =>
        \A repository \in RemoteRepositories, force_answer \in BOOLEAN,
           credential_manager \in BOOLEAN, credential_answer \in BOOLEAN :
            LET out == process_remote_repository(Here, repository, force_answer,
                                                 credential_manager, credential_answer, FALSE)
            IN  Pushes(out.trace) /= {} =>
                    /\ out.err = PushError
                    /\ self.repository_remote_name \in git
                    /\ self.repository_remote_name \notin out.git
                    /\ out.trace[Len(out.trace)] = "remove_git_remote"
                    /\ out.trace[Len(out.trace) - 1] \in Pushes(out.trace)
                    /\ out.devops.pushed = {}
    /\ err = PushError =>
        /\ pc = "failed"
        /\ trace[Len(trace)] = "remove_git_remote"
        /\ self.repository_remote_name \notin git
        /\ Range(trace) \cap AfterPushCalls = {}
        /\ devops.service_endpoints = {}
        /\ devops.build_definitions = {}
        /\ devops.builds = {}
        /\ devops.release_definitions = {}
        /\ devops.releases = {}
        /\ self.service_endpoint_name = None
        /\ self.build = None
        /\ self.release = None

\* a run pushed, the push failed, and the run ended with its remote removed
C25_Witness ==
    /\ pc = "failed"
    /\ err = PushError
    /\ Pushes(trace) /= {}
    /\ Made("setup_local_git_repository")
    /\ Made("remove_git_remote")
    /\ git = {}

\* the names typed in one creation sub-flow: refused names, then an accepted one
OrganizationAttempts ==
    Attempts(OrganizationPrompts \cap RefusedOrganizationNames,
             OrganizationPrompts \ RefusedOrganizationNames, MaxAttempts)
ProjectAttempts ==
    Attempts(ProjectPrompts \cap RefusedProjectNames,
             ProjectPrompts \ RefusedProjectNames, MaxAttempts)

\* C26: a creation sub-flow asks for a name and calls the remote once for
\* every name typed, goes on after every refusal, and ends at the first name
\* the remote accepts; the organization or project of the session is then
\* that name, and no refused name was kept or created.
C26_CreationRetriesUntilAccepted ==
    /\ (pc = "process_organization" /\ self.organization_name = None) =>
        \A organizations \in OrganizationLists, use_existing \in BOOLEAN,
           region_index \in 0..(Cardinality(RegionNames) - 1), names \in OrganizationAttempts :
            LET out == process_organization(Here, organizations, use_existing, 0,
                                            region_index, names)
            IN  (~use_existing \/ organizations = {}) =>
                    /\ Ok(out)
                    /\ Count(out.trace, "prompt:organization") = Len(names)
                    /\ Count(out.trace, "create_organization") = Len(names)
                    /\ \A i \in 1..(Len(names) - 1) : names[i] \in RefusedOrganizationNames
                    /\ out.self.organization_name = names[Len(names)]
                    /\ out.self.organization_name \notin RefusedOrganizationNames
                    /\ out.devops.organizations = {out.self.organization_name}
    /\ (pc = "process_project" /\ self.project_name = NoneStr) =>
        \A projects \in ProjectLists, use_existing \in BOOLEAN, names \in ProjectAttempts :
            LET out == process_project(Here, projects, use_existing, 0, names)
            IN  (self.created_organization \/ ~use_existing \/ projects = {}) =>
                    /\ Ok(out)
                    /\ Count(out.trace, "prompt:project") = Len(names)
                    /\ Count(out.trace, "create_project") = Len(names)
                    /\ \A i \in 1..(Len(names) - 1) : names[i] \in RefusedProjectNames
                    /\ out.self.project_name = names[Len(names)]
                    /\ out.self.project_name \notin RefusedProjectNames
                    /\ out.devops.projects
                            = {<<self.organization_name, out.self.project_name>>}

\* an organization and then a project were created, each at the last of
\* MaxAttempts names
C26_Witness ==
    /\ pc = "process_yaml_local"
    /\ Count(trace, "create_organization") = MaxAttempts
    /\ Count(trace, "create_project") = MaxAttempts
    /\ self.organization_name = "org3"
    /\ self.project_name = P3
    /\ devops.organizations = {"org3"}
    /\ devops.projects = {<<"org3", P3>>}

\* C27: created_organization is true exactly when the run created its
\* organization, by either creation path.  With no project name given,
\* process_project creates the project without asking whether to use an
\* existing one when the flag is true, and asks when it is false.
C27_CreatedOrganizationSkipsPrompt ==
    /\ self.created_organization <=> Made("create_organization")
    /\ self.created_organization <=> devops.organizations /= {}
    /\ self.created_organization => self.organization_name \in devops.organizations
    /\ (pc = "process_project" /\ self.project_name = NoneStr) =>
        \A projects \in ProjectLists, use_existing \in BOOLEAN, names \in ProjectAttempts :
        \A choice_index \in 0..(IF projects = {} THEN 0 ELSE Cardinality(projects) - 1) :
            LET out == process_project(Here, projects, use_existing, choice_index, names)
                asked == Count(out.trace, "prompt_y_n:use_existing_project")
            IN  /\ self.created_organization =>
                    /\ asked = 0
                    /\ Count(out.trace, "list_projects") = 0
                    /\ Count(out.trace, "prompt_choice_list:project") = 0
                    /\ Count(out.trace, "create_project") = Len(names)
                    /\ out.self.created_project
                /\ ~self.created_organization => asked = 1

\* the project of an organization created in the run was created unasked
C27_Witness ==
    /\ pc = "process_yaml_local"
    /\ self.created_organization
    /\ Made("prompt_y_n:use_existing_organization")
    /\ Made("create_project")
    /\ ~Made("prompt_y_n:use_existing_project")

\* whether copying the local settings is consented to: by the flag when it
\* is given, by the answer to the prompt otherwise
CopyConsent(s, copy) ==
    IF s.use_local_settings = None THEN copy ELSE s.use_local_settings = PyTrue

\* the key/value pairs of settings, none of a reserved key
PlainSettings(settings) == \A i \in DOMAIN settings : settings[i][1] \notin DefaultSettings

\* C28: the settings process_yaml_local leaves in the session hold no
\* FUNCTIONS_WORKER_RUNTIME and no AzureWebJobsStorage, and only pairs of
\* 'Values' in local.settings.json; they are empty unless copying was
\* consented to, by the use_local_settings flag when it is given and
\* otherwise by the prompt, which is asked only when the file has a setting
\* that is not reserved.
C28_SettingsExcludeReserved ==
    /\ PlainSettings(self.settings)
    /\ pc = "process_yaml_local" =>
        \A data \in {d \in LocalSettingsFiles : "Values" \in DOMAIN d},
           yaml_exists \in BOOLEAN, copy \in BOOLEAN, overwrite \in BOOLEAN,
           yaml_ok \in BOOLEAN :
            LET out == process_yaml_local(Here, data, yaml_exists, copy, overwrite, yaml_ok)
                settings == out.self.settings
                others == DOMAIN data.Values \ DefaultSettings
                asked == Count(out.trace, "prompt_y_n:use_local_settings")
            IN  /\ PlainSettings(settings)
                /\ \A i \in DOMAIN settings :
                        /\ settings[i][1] \in DOMAIN data.Values
                        /\ settings[i][2] = data.Values[settings[i][1]]
                /\ ~CopyConsent(self, copy) => settings = <<>>
                /\ CopyConsent(self, copy) => {settings[i][1] : i \in DOMAIN settings} = others
                /\ asked = IF self.use_local_settings = None /\ others /= {} THEN 1 ELSE 0

\* the one plain setting of a file that also has both reserved keys was
\* copied, on the user's answer
C28_Witness ==
    /\ pc = "process_local_repository"
    /\ self.use_local_settings = None
    /\ Made("prompt_y_n:use_local_settings")
    /\ self.settings = <<(<<"MY_SETTING", "1">>)>>

\* every call of a comes before every call of b
Before(a, b) == \A i, j \in DOMAIN trace : (trace[i] = a /\ trace[j] = b) => i < j

\* the calls a step makes once when it runs
OnceCalls ==
    {"list_function_app", "get_app_settings", "check_git", "check_github_file:host.json",
     "os.path.exists:azure-pipelines.yml", "check_git_local_repository",
     "get_azure_devops_repository",
     "get_service_endpoints", "get_github_service_endpoints", "list_build_definitions",
     "create_build_object", "list_release_definitions", "create_release"}

\* the position of the running step in its flow; check_scenario comes before the flow
StepIndex(step, scenario) ==
    IF step = "check_scenario" THEN 0
    ELSE LET flow == FlowOf(scenario) IN CHOOSE i \in DOMAIN flow : flow[i] = step

\* one step of a run: a turn of the build wait, the end of the running step
\* with the next step of the flow to follow, its failure, or the return
InOrder ==
    \/ /\ pc = "process_release"
       /\ pc' = pc
       /\ Waiting(poll)
       /\ poll'.counter = poll.counter + SleepSeconds
       /\ err' = NoErr
    \/ /\ pc \notin {"failed", "done", "return"}
       /\ pc' \notin {"failed", "done"}
       /\ StepIndex(pc', self'.scenario) = StepIndex(pc, self.scenario) + 1
       /\ err' = NoErr
    \/ /\ pc \notin {"failed", "done", "return"}
       /\ pc' = "failed"
       /\ err' /= NoErr
    \/ /\ pc = "return"
       /\ pc' = "done"
       /\ err' = NoErr

\* what the calls made so far say of the order of the steps
StepsInOrder ==
    /\ err /= NoErr <=> pc = "failed"
    /\ \A op \in OnceCalls : Count(trace, op) <= 1
    /\ Made("create_build_object") =>
        /\ self.build_definition_name /= NoneStr
        /\ Before("list_build_definitions", "create_build_object")
        /\ Before("create_devops_build_definition", "create_build_object")
        /\ Before("create_github_build_definition", "create_build_object")
    /\ Made("list_build_objects") => Made("create_build_object") /\ self.build /= None
    /\ Before("create_build_object", "list_build_objects")
    /\ Made("create_release") =>
        /\ poll.polled
        /\ poll.result /= None
        /\ Before("list_build_objects", "create_release")
        /\ Before("list_release_definitions", "create_release")
        /\ Before("create_release_definition", "create_release")
    /\ pc = "done" => Made("create_release") /\ result = ReturnValue(self)
    /\ pc = "process_build" =>
        \A build_definitions \in BuildDefinitions, create_ok \in BOOLEAN :
            LET out == process_build(Here, FlowScenario, build_definitions, create_ok)
            IN  "create_build_object" \in Range(out.trace) =>
                    self.build_definition_name
                        \in build_definitions \cup out.devops.build_definitions

\* C29: the steps of a run execute once each, in the order of the flow, with
\* no step taken again or skipped; the build is queued only once its build
\* definition exists, a release is triggered only after a non-null result of
\* the queued build was observed, and after a step that fails no step runs.
C29_StepsInFlowOrder ==
    []StepsInOrder /\ [][InOrder]_vars

\* a run went through build, wait and release to its end
C29_Witness ==
    /\ pc = "done"
    /\ Made("create_build_object")
    /\ Count(trace, "list_build_objects") = MaxPolls
    /\ Made("create_release")

\* process_release is in its loop and no result of the build has been observed
InLoop == pc = "process_release" /\ (~poll.polled \/ poll.result = None)

\* the wait ends once the remote reports a result
WaitEnds == InLoop ~> ~InLoop

\* whatever the number of turns taken, one more is possible
WaitUnbounded == InLoop => ENABLED <<LoopTurn>>_vars

GitRemoteCalls ==
    {"check_git_remote", "setup_local_git_repository", "remove_git_remote",
     "push_local_to_azure_devops_repository(force=True)",
     "push_local_to_azure_devops_repository(force=False)"}

\* the calls a handler adds to the calls made before it
NewCalls(out) == {out.trace[i] : i \in (Len(trace) + 1)..Len(out.trace)}

\* what comes after process_functionapp_service_endpoint in either flow
AfterEndpointCalls ==
    {"create_extension", "list_build_definitions", "create_devops_build_definition",
     "create_github_build_definition", "create_build_object", "list_build_objects",
     "list_release_definitions", "create_release_definition", "create_release"}

\* C31: process_functionapp_service_endpoint creates a service endpoint exactly
\* when none is listed and otherwise takes the first one listed; when the
\* creation fails on the role assignment the flow fails, having removed the git
\* remote as its last call in the AZURE_DEVOPS scenario and having made no git
\* remote call at all in the GITHUB_INTEGRATION scenario.
C31_EndpointOnlyIfAbsent ==
    /\ pc = "process_functionapp_service_endpoint" =>
        \A service_endpoints \in ServiceEndpointLists \cup {<<"new_endpoint">>},
           create_ok \in BOOLEAN :
            LET out == process_functionapp_service_endpoint(Here, FlowScenario,
                                                            service_endpoints, create_ok)
                created == Count(out.trace, "create_service_endpoint")
                               - Count(trace, "create_service_endpoint")
            IN  /\ created = IF service_endpoints = <<>> THEN 1 ELSE 0
                /\ service_endpoints /= <<>> =>
                    /\ out.err = NoErr
                    /\ out.self.service_endpoint_name = service_endpoints[1]
                    /\ out.devops = devops
                    /\ out.git = git
                    /\ NewCalls(out) = {"get_service_endpoints"}
                /\ service_endpoints = <<>> /\ create_ok =>
                    /\ out.err = NoErr
                    /\ out.self.service_endpoint_name \in out.devops.service_endpoints
                    /\ out.git = git
                    /\ NewCalls(out) \cap GitRemoteCalls = {}
                /\ service_endpoints = <<>> /\ ~create_ok =>
                    /\ out.err = RoleAssignmentError
                    /\ out.devops = devops
                    /\ out.self.service_endpoint_name = self.service_endpoint_name
                    /\ IF FlowScenario = "AZURE_DEVOPS"
                       THEN /\ self.repository_remote_name \in git
                            /\ self.repository_remote_name \notin out.git
                            /\ out.trace[Len(out.trace)] = "remove_git_remote"
                            /\ out.trace[Len(out.trace) - 1] = "create_service_endpoint"
                       ELSE /\ out.git = git
                            /\ NewCalls(out) \cap GitRemoteCalls = {}
    /\ err = RoleAssignmentError =>
        /\ pc = "failed"
        /\ Range(trace) \cap AfterEndpointCalls = {}
        /\ devops.service_endpoints = {}
        /\ IF FlowScenario = "AZURE_DEVOPS"
           THEN /\ trace[Len(trace)] = "remove_git_remote"
                /\ self.repository_remote_name \notin git
           ELSE /\ trace[Len(trace)] = "create_service_endpoint"
                /\ Range(trace) \cap GitRemoteCalls = {}

\* an Azure DevOps run bound its remote, pushed, failed to create the service
\* endpoint on the role assignment and ended with the remote removed
C31_Witness ==
    /\ pc = "failed"
    /\ err = RoleAssignmentError
    /\ FlowScenario = "AZURE_DEVOPS"
    /\ Made("setup_local_git_repository")
    /\ Pushes(trace) /= {}
    /\ trace[Len(trace)] = "remove_git_remote"
    /\ git = {}

\* a step that sets repository_remote_name is the part of
\* process_local_repository after a successful setup: the name was not bound
\* and the step binds it
AddsRemote ==
    /\ pc = "process_local_repository"
    /\ self.scenario = "AZURE_DEVOPS"
    /\ self.repository_remote_name = NoneStr
    /\ self'.repository_remote_name \notin git
    /\ git' = git \cup {self'.repository_remote_name}
    /\ Count(trace', "setup_local_git_repository") = 1
    /\ trace'[Len(trace')] = "setup_local_git_repository"
    /\ err' = NoErr

\* a step that unbinds a remote unbinds the one this run has bound, and no other
RemovesOwnRemote ==
    /\ self.scenario = "AZURE_DEVOPS"
    /\ self.repository_remote_name /= NoneStr
    /\ self'.repository_remote_name = self.repository_remote_name
    /\ self.repository_remote_name \in git
    /\ git' = git \ {self.repository_remote_name}
    /\ Count(trace, "setup_local_git_repository") = 1
    /\ Count(trace', "remove_git_remote") = 1
    /\ pc' = "failed"

RemoteOwned ==
    /\ self'.repository_remote_name /= self.repository_remote_name => AddsRemote
    /\ git' /= git => AddsRemote \/ RemovesOwnRemote
    /\ self.scenario = "GITHUB_INTEGRATION" => git' = git

\* nothing is removed or pushed by a run that has not bound its remote, and
\* the GitHub flow makes no git remote call
RemoteUntouched ==
    /\ self.repository_remote_name = NoneStr =>
        /\ ~Made("remove_git_remote")
        /\ Pushes(trace) = {}
    /\ self.scenario /= "AZURE_DEVOPS" => Range(trace) \cap GitRemoteCalls = {}
    /\ Made("remove_git_remote") => Made("setup_local_git_repository")

\* C32: a git remote is removed only by a run whose process_local_repository
\* has bound that remote after finding it unbound, so a remote bound before the
\* run is never removed; the GitHub flow never binds, unbinds or pushes.
C32_RemovesOnlyOwnRemote == []RemoteUntouched /\ [][RemoteOwned]_vars

\* a run started with another remote bound, bound its own, removed it on a
\* failure and left the other one bound
C32_Witness ==
    /\ pc = "failed"
    /\ Made("setup_local_git_repository")
    /\ Made("remove_git_remote")
    /\ self.repository_remote_name = get_local_git_remote_name("org1", P1, R1)
    /\ git = {get_local_git_remote_name("org1", P1, P1)}

\* the calls of process_github_personal_access_token and process_github_repository
ValidationCalls ==
    {"check_github_pat", "prompt:github_pat", "check_github_repository",
     "prompt:github_repository"}

\* the values a loop tests: the one given, then the ones typed, the empty ones
\* left out as the loop does not send them to the check
TestedPats(given, typed) ==
    Cardinality({i \in DOMAIN typed : Truthy(typed[i])}) + IF Truthy(given) THEN 1 ELSE 0

TestedRepositories(given, typed) ==
    Cardinality({i \in DOMAIN typed : TruthyStr(typed[i])}) + IF TruthyStr(given) THEN 1 ELSE 0

\* the last repository check of the run, 0 when there is none
LastRepositoryCheck ==
    LET at == {i \in DOMAIN trace : trace[i] = "check_github_repository"}
    IN  IF at = {} THEN 0 ELSE CHOOSE i \in at : \A j \in at : j <= i

\* C33: in the GitHub flow the token step returns with a non-empty token that
\* the token check accepted, having prompted once for every value refused;
\* the repository step returns with a non-empty repository that the repository
\* check accepted for that token, having prompted once for every value
\* refused; and every call of the later steps comes after both have returned.
C33_ValidatedBeforeFlow ==
    /\ pc = "process_github_personal_access_token" =>
        \A given \in PatPrompts \cup {None} :
            \A typed \in Typed(given \in ValidPats, PatPrompts \ ValidPats,
                               PatPrompts \cap ValidPats) :
                LET out == process_github_personal_access_token(
                               Set(Here, "github_pat", given), typed)
                IN  /\ out.err = NoErr
                    /\ Truthy(out.self.github_pat)
                    /\ check_github_pat(out.self.github_pat)
                    /\ out.self.github_pat = IF typed = <<>> THEN given ELSE typed[Len(typed)]
                    /\ out.trace[Len(out.trace)] = "check_github_pat"
                    /\ Count(out.trace, "prompt:github_pat") = Len(typed)
                    /\ Count(out.trace, "check_github_pat") = TestedPats(given, typed)
                    /\ NewCalls(out) \subseteq {"check_github_pat", "prompt:github_pat"}
    /\ pc = "process_github_repository" =>
        /\ Truthy(self.github_pat)
        /\ check_github_pat(self.github_pat)
        /\ trace[Len(trace)] = "check_github_pat"
        /\ \A given \in GithubRepositoryPrompts \cup {NoneStr} :
            \A typed \in Typed(given \in ValidGithubRepositories,
                               GithubRepositoryPrompts \ ValidGithubRepositories,
                               GithubRepositoryPrompts \cap ValidGithubRepositories) :
                LET out == process_github_repository(
                               Set(Here, "github_repository", given), typed)
                IN  /\ out.err = NoErr
                    /\ out.self.github_pat = self.github_pat
                    /\ TruthyStr(out.self.github_repository)
                    /\ check_github_repository(out.self.github_pat, out.self.github_repository)
                    /\ out.self.github_repository
                           = IF typed = <<>> THEN given ELSE typed[Len(typed)]
                    /\ out.trace[Len(out.trace)] = "check_github_repository"
                    /\ Count(out.trace, "prompt:github_repository") = Len(typed)
                    /\ Count(out.trace, "check_github_repository")
                           = TestedRepositories(given, typed)
                    /\ NewCalls(out) \subseteq {"check_github_repository",
                                                "prompt:github_repository"}
    /\ self.scenario = "GITHUB_INTEGRATION" =>
        /\ \A i \in DOMAIN trace :
            /\ i <= LastRepositoryCheck => trace[i] \in ValidationCalls \cup SourcePrompts
            /\ i > LastRepositoryCheck /\ LastRepositoryCheck > 0 =>
                   trace[i] \notin ValidationCalls
            /\ trace[i] \notin ValidationCalls \cup SourcePrompts => LastRepositoryCheck > 0
        /\ Before("check_github_pat", "check_github_repository")
        /\ Before("prompt:github_pat", "check_github_repository")
        /\ pc \notin {"process_github_personal_access_token", "process_github_repository"} =>
            /\ LastRepositoryCheck > 0
            /\ check_github_pat(self.github_pat)
            /\ check_github_repository(self.github_pat, self.github_repository)

\* a GitHub run in which a token and a repository were refused and asked for
\* again, and which then went on to find the function app
C33_Witness ==
    /\ self.scenario = "GITHUB_INTEGRATION"
    /\ Count(trace, "prompt:github_pat") >= 2
    /\ Count(trace, "prompt:github_repository") >= 2
    /\ trace[LastRepositoryCheck] = "check_github_repository"
    /\ Made("list_function_app")
    /\ pc = "pre_checks_github"

=============================================================================
